---- MODULE Spec2Model ----
(***************************************************************************)
(* AX.25 UI-frame codec and matrix fragmentation layer of ax25.c.           *)
(* Bytes are integers 0..255, buffers are sequences (index 1 is C index 0), *)
(* the expanded bitstream is a sequence of 0/1 entries.                     *)
(***************************************************************************)
EXTENDS Integers, Sequences, FiniteSets, TLC

(* ---- config.h ---------------------------------------------------------- *)
AX25_MAX_FRAME_LEN == 256
AX25_MAX_INFO_LEN == 240
AX25_MAX_ADDR_LEN == 28
AX25_MIN_ADDR_LEN == 14
AX25_CALLSIGN_MAX_LEN == 6
AX25_MIN_CTRL_LEN == 1
AX25_MAX_CTRL_LEN == 2
AX25_FLAG == 126
AX25_PID_NO_LAYER3 == 240
AX25_MAX_CONSECUTIVE_ONES == 5
AX25_MAX_STUFFED_BITS == 14
AX25_FCS_LEN == 2
AX25_FCS_INIT == 65535
AX25_FCS_XOR == 65535
AX25_CTRL_UI == 3
AX25_SSID_MASK == 15
AX25_RESERVED_BITS == 96
AX25_LAST_ADDR_BIT == 1
AX25_CALLSIGN_SHIFT == 1
MATRIX_CHUNK_SIZE == 200
MATRIX_MAX_ROWS == 1000
MATRIX_MAX_COLS == 1000
AX25_ERROR == -1
AX25_ERROR_INVALID_PARAM == -2
AX25_ERROR_BUFFER_OVERFLOW == -3
AX25_ERROR_FCS_MISMATCH == -4

\* "PARSAT" and "ABCD" as the bytes before the terminating NUL
SAT_CALLSIGN == << 80, 65, 82, 83, 65, 84 >>
SAT_SSID == 0
GRD_CALLSIGN == << 65, 66, 67, 68 >>
GRD_SSID == 0

(* ---- ax25.h ------------------------------------------------------------ *)
AX25_I_FRAME == 0
AX25_S_FRAME == 1
AX25_U_FRAME == 2
AX25_UI_FRAME == 3
AX25_ENC_FAIL == 0
AX25_ENC_OK == 1
AX25_DEC_FAIL == 0
AX25_DEC_OK == 1

AX25_SYNC_FLAG_MAP_BIN == << 0, 1, 1, 1, 1, 1, 1, 0 >>

\* sizeof(tmp_send_buf), sizeof(tmp_recv_buf)
TmpBufLen == AX25_MAX_FRAME_LEN * 8 + AX25_MAX_FRAME_LEN

(* ---- integer helpers for the C operators ------------------------------- *)
Min(a, b) == IF a < b THEN a ELSE b

RECURSIVE Xor(_, _)
Xor(a, b) ==
    IF a = 0 THEN b
    ELSE IF b = 0 THEN a
    ELSE ((a + b) % 2) + 2 * Xor(a \div 2, b \div 2)

RECURSIVE BitAnd(_, _)
BitAnd(a, b) ==
    IF a = 0 \/ b = 0 THEN 0
    ELSE ((a % 2) * (b % 2)) + 2 * BitAnd(a \div 2, b \div 2)

RECURSIVE BitOr(_, _)
BitOr(a, b) ==
    IF a = 0 THEN b
    ELSE IF b = 0 THEN a
    ELSE (IF a % 2 = 1 \/ b % 2 = 1 THEN 1 ELSE 0) + 2 * BitOr(a \div 2, b \div 2)

\* (x >> k) & 1
BitOf(x, k) == (x \div (2 ^ k)) % 2

(* ---- utils.h: the reflected CRC-16-CCITT table (polynomial 0x8408) ----- *)
crc16_ccitt_table_reverse == <<
    0, 4489, 8978, 12955, 17956, 22445, 25910, 29887,
    35912, 40385, 44890, 48851, 51820, 56293, 59774, 63735,
    4225, 264, 13203, 8730, 22181, 18220, 30135, 25662,
    40137, 36160, 49115, 44626, 56045, 52068, 63999, 59510,
    8450, 12427, 528, 5017, 26406, 30383, 17460, 21949,
    44362, 48323, 36440, 40913, 60270, 64231, 51324, 55797,
    12675, 8202, 4753, 792, 30631, 26158, 21685, 17724,
    48587, 44098, 40665, 36688, 64495, 60006, 55549, 51572,
    16900, 21389, 24854, 28831, 1056, 5545, 10034, 14011,
    52812, 57285, 60766, 64727, 34920, 39393, 43898, 47859,
    21125, 17164, 29079, 24606, 5281, 1320, 14259, 9786,
    57037, 53060, 64991, 60502, 39145, 35168, 48123, 43634,
    25350, 29327, 16404, 20893, 9506, 13483, 1584, 6073,
    61262, 65223, 52316, 56789, 43370, 47331, 35448, 39921,
    29575, 25102, 20629, 16668, 13731, 9258, 5809, 1848,
    65487, 60998, 56541, 52564, 47595, 43106, 39673, 35696,
    33800, 38273, 42778, 46739, 49708, 54181, 57662, 61623,
    2112, 6601, 11090, 15067, 20068, 24557, 28022, 31999,
    38025, 34048, 47003, 42514, 53933, 49956, 61887, 57398,
    6337, 2376, 15315, 10842, 24293, 20332, 32247, 27774,
    42250, 46211, 34328, 38801, 58158, 62119, 49212, 53685,
    10562, 14539, 2640, 7129, 28518, 32495, 19572, 24061,
    46475, 41986, 38553, 34576, 62383, 57894, 53437, 49460,
    14787, 10314, 6865, 2904, 32743, 28270, 23797, 19836,
    50700, 55173, 58654, 62615, 32808, 37281, 41786, 45747,
    19012, 23501, 26966, 30943, 3168, 7657, 12146, 16123,
    54925, 50948, 62879, 58390, 37033, 33056, 46011, 41522,
    23237, 19276, 31191, 26718, 7393, 3432, 16371, 11898,
    59150, 63111, 50204, 54677, 41258, 45219, 33336, 37809,
    27462, 31439, 18516, 23005, 11618, 15595, 3696, 8185,
    63375, 58886, 54429, 50452, 45483, 40994, 37561, 33584,
    31687, 27214, 22741, 18780, 15843, 11370, 7921, 3960 >>

(* ---- ax25_fcs ----------------------------------------------------------- *)
\* One iteration of the table loop on buffer[i]
FcsStep(fcs, byte) ==
    Xor(fcs \div 256, crc16_ccitt_table_reverse[(Xor(fcs, byte) % 256) + 1])

\* Iterations i = lo .. hi of the loop, in order (the range is halved only to
\* keep the evaluation depth logarithmic)
RECURSIVE FcsLoop(_, _, _, _)
FcsLoop(buffer, lo, hi, fcs) ==
    IF lo > hi \/ fcs \notin 0..65535 THEN fcs      \* fcs is a uint16_t
    ELSE IF lo = hi THEN FcsStep(fcs, buffer[lo + 1])
    ELSE LET mid == (lo + hi) \div 2
         IN  FcsLoop(buffer, mid + 1, hi, FcsLoop(buffer, lo, mid, fcs))

\* A checksum without the final XOR: the fault C19_ReflectedCrc has to tell
\* from ax25_fcs.
ax25_fcs_no_final_xor(buffer, len) == FcsLoop(buffer, 0, len - 1, AX25_FCS_INIT)

ax25_fcs(buffer, len) == Xor(FcsLoop(buffer, 0, len - 1, AX25_FCS_INIT), AX25_FCS_XOR)

(* ---- ax25_create_addr_field -------------------------------------------- *)
\* strnlen(callsign, 6) bytes shifted left into a uint8_t, then ' ' << 1
CallsignField(cs) ==
    [i \in 1..AX25_CALLSIGN_MAX_LEN |->
        IF i <= Min(Len(cs), AX25_CALLSIGN_MAX_LEN)
        THEN (cs[i] * (2 ^ AX25_CALLSIGN_SHIFT)) % 256
        ELSE (32 * (2 ^ AX25_CALLSIGN_SHIFT)) % 256]

SsidField(ssid, last) ==
    BitOr(BitOr(BitAnd(ssid, AX25_SSID_MASK) * (2 ^ AX25_CALLSIGN_SHIFT),
                AX25_RESERVED_BITS), last) % 256

\* An address field that repeats the destination callsign in the source
\* half: the fault C15_AddrField has to tell from ax25_create_addr_field.
ax25_create_addr_field_dest_twice(dest_addr, dest_ssid, src_addr, src_ssid) ==
    CallsignField(dest_addr) \o << SsidField(dest_ssid, 0) >> \o
    CallsignField(dest_addr) \o << SsidField(src_ssid, AX25_LAST_ADDR_BIT) >>

\* An address field whose destination SSID byte has the last-address bit
\* too: the fault C30_LastAddressBit has to tell from ax25_create_addr_field.
ax25_create_addr_field_last_on_dest(dest_addr, dest_ssid, src_addr, src_ssid) ==
    CallsignField(dest_addr) \o << SsidField(dest_ssid, AX25_LAST_ADDR_BIT) >> \o
    CallsignField(src_addr) \o << SsidField(src_ssid, AX25_LAST_ADDR_BIT) >>

ax25_create_addr_field(dest_addr, dest_ssid, src_addr, src_ssid) ==
    CallsignField(dest_addr) \o << SsidField(dest_ssid, 0) >> \o
    CallsignField(src_addr) \o << SsidField(src_ssid, AX25_LAST_ADDR_BIT) >>

(* ---- ax25_create_frame -------------------------------------------------- *)
\* A frame builder that appends the FCS low byte first: the fault
\* C17_FrameLayout has to tell from ax25_create_frame.
ax25_create_frame_fcs_low_first(info, type, addr, ctrl, ctrl_len) ==
    IF Len(info) > AX25_MAX_INFO_LEN THEN [ret |-> 0, out |-> << >>]
    ELSE IF ctrl_len # AX25_MIN_CTRL_LEN /\ ctrl_len # AX25_MAX_CTRL_LEN
    THEN [ret |-> 0, out |-> << AX25_FLAG >> \o addr]
    ELSE
      LET ctrlBytes == IF ctrl_len = AX25_MIN_CTRL_LEN
                       THEN << ctrl % 256 >>
                       ELSE << ctrl % 256, (ctrl \div 256) % 256 >>
          pid == IF type = AX25_I_FRAME \/ type = AX25_UI_FRAME
                 THEN << AX25_PID_NO_LAYER3 >> ELSE << >>
          covered == addr \o ctrlBytes \o pid \o info
          fcs == ax25_fcs(covered, Len(covered))
      IN  [ret |-> Len(covered) + 4,
           out |-> << AX25_FLAG >> \o covered \o
                   << fcs % 256, (fcs \div 256) % 256 >> \o << AX25_FLAG >>]

\* ret is the value returned (idx, or 0) and out the bytes stored through
\* out up to the return: on an info_len above the limit nothing, on a control
\* length other than 1 and 2 the flag and the address, else the whole frame.
ax25_create_frame(info, type, addr, ctrl, ctrl_len) ==
    IF Len(info) > AX25_MAX_INFO_LEN THEN [ret |-> 0, out |-> << >>]
    ELSE IF ctrl_len # AX25_MIN_CTRL_LEN /\ ctrl_len # AX25_MAX_CTRL_LEN
    THEN [ret |-> 0, out |-> << AX25_FLAG >> \o addr]
    ELSE
      LET ctrlBytes == IF ctrl_len = AX25_MIN_CTRL_LEN
                       THEN << ctrl % 256 >>
                       ELSE << ctrl % 256, (ctrl \div 256) % 256 >>
          pid == IF type = AX25_I_FRAME \/ type = AX25_UI_FRAME
                 THEN << AX25_PID_NO_LAYER3 >> ELSE << >>
          covered == addr \o ctrlBytes \o pid \o info
          fcs == ax25_fcs(covered, Len(covered))
      IN  [ret |-> Len(covered) + 4,
           out |-> << AX25_FLAG >> \o covered \o
                   << (fcs \div 256) % 256, fcs % 256 >> \o << AX25_FLAG >>]

(* ---- ax25_bit_stuffing -------------------------------------------------- *)
\* A stuffer that inserts the zero one bit late, after six 1 bits: the fault
\* C8_NoFlagInBody has to tell from StuffBit.
StuffBitLate(st, bit) ==
    LET stuffed == st.cont_1 > AX25_MAX_CONSECUTIVE_ONES
        out1 == IF stuffed THEN Append(st.out, 0) ELSE st.out
        c1 == IF stuffed THEN 0 ELSE st.cont_1
        c2 == IF bit = 1 THEN c1 + 1 ELSE 0
    IN  [out |-> Append(out1, bit),
         cont_1 |-> c2,
         status |-> IF c2 > AX25_MAX_STUFFED_BITS THEN AX25_ENC_FAIL ELSE AX25_ENC_OK]

\* One iteration of the body loop on the state (out, cont_1, status).
StuffBit(st, bit) ==
    LET stuffed == st.cont_1 >= AX25_MAX_CONSECUTIVE_ONES
        out1 == IF stuffed THEN Append(st.out, 0) ELSE st.out
        c1 == IF stuffed THEN 0 ELSE st.cont_1
        c2 == IF bit = 1 THEN c1 + 1 ELSE 0
    IN  [out |-> Append(out1, bit),
         cont_1 |-> c2,
         status |-> IF c2 > AX25_MAX_STUFFED_BITS THEN AX25_ENC_FAIL ELSE AX25_ENC_OK]

\* Iterations i = lo .. hi of the body loop, in order, on data_ptr = buffer + 1;
\* nothing more is done once the abort return was taken.
RECURSIVE StuffBody(_, _, _, _)
StuffBody(st, buffer, lo, hi) ==
    IF lo > hi \/ st.status = AX25_ENC_FAIL THEN st
    ELSE IF lo = hi THEN StuffBit(st, BitOf(buffer[(lo \div 8) + 2], lo % 8))
    ELSE LET mid == (lo + hi) \div 2
         IN  StuffBody(StuffBody(st, buffer, lo, mid), buffer, mid + 1, hi)

\* out and *out_len as written on AX25_ENC_OK; on AX25_ENC_FAIL *out_len is
\* left as the caller initialised it (0).
ax25_bit_stuffing(buffer, buffer_len) ==
    LET body == StuffBody([out |-> AX25_SYNC_FLAG_MAP_BIN, cont_1 |-> 0,
                           status |-> AX25_ENC_OK],
                          buffer, 0, 8 * (buffer_len - 2) - 1)
    IN  IF body.status = AX25_ENC_FAIL
        THEN [status |-> AX25_ENC_FAIL, out |-> body.out, out_len |-> 0]
        ELSE [status |-> AX25_ENC_OK,
              out |-> body.out \o AX25_SYNC_FLAG_MAP_BIN,
              out_len |-> Len(body.out) + 8]

(* ---- bytes the program does not determine ------------------------------- *)
\* The content of a byte that the program has not written before it reads
\* it: a byte of an array declared without initialiser, of malloc memory, or
\* of whatever lies outside a buffer.  It stands for every value 0..255 and
\* is no byte value itself; a byte computed from it is Indeterminate too.
Indeterminate == 256

\* v & mask on a byte
MaskByte(v, mask) == IF v = Indeterminate THEN Indeterminate ELSE BitAnd(v, mask)

(* ---- ax25_encode -------------------------------------------------------- *)
\* out[i/8] |= bit << (7 - i%8) over a zeroed byte: the value of byte b
RECURSIVE PackByte(_, _, _, _)
PackByte(bits, ret_len, b, j) ==
    IF j = 8 THEN 0
    ELSE (IF 8 * b + j < ret_len THEN bits[8 * b + j + 1] * (2 ^ (7 - j)) ELSE 0)
         + PackByte(bits, ret_len, b, j + 1)

\* The byte at C index c of out after the memset, the packing loop and the
\* padding step, prior being what the byte held before the call.
PackAt(prior, bits, ret_len, c) ==
    LET pad_bits == 8 - (ret_len % 8)
        final_len == IF pad_bits < 8 THEN ret_len + pad_bits ELSE ret_len
        n == final_len \div 8
        zeroed == (ret_len \div 8) + 1
    IN  IF c < zeroed THEN PackByte(bits, ret_len, c, 0)
        ELSE IF pad_bits < 8 /\ c = n THEN MaskByte(prior, (255 * (2 ^ pad_bits)) % 256)
        ELSE prior

\* The caller's buffer after the call, given its contents before the call.
\* C index c is element c+1; writes at C indices >= Len(before) fall outside
\* the buffer.
PackIntoCaller(before, bits, ret_len) ==
    [c \in 1..Len(before) |-> PackAt(before[c], bits, ret_len, c - 1)]

\* A packer whose memset clears one byte per bit (ret_len bytes instead of
\* ret_len / 8 + 1): the fault C10_OutputBound has to tell from PackTouched.
PackTouchedPerBit(ret_len) ==
    ret_len

\* Number of leading bytes of the caller's buffer that ax25_encode writes or
\* reads-modifies: the memset length, and out[ret_len / 8] of the padding step.
PackTouched(ret_len) ==
    LET pad_bits == 8 - (ret_len % 8)
    IN  IF pad_bits < 8 THEN ((ret_len + pad_bits) \div 8) + 1
        ELSE (ret_len \div 8) + 1

\* The part of ax25_encode after ax25_create_frame returned framelen > 0:
\* stuffing of interm_buffer (read back as frame), packing and padding.
EncodeFrame(out, frame, framelen) ==
    LET st == ax25_bit_stuffing(frame, framelen)
        pad_bits == 8 - (st.out_len % 8)
        final_len == IF pad_bits < 8 THEN st.out_len + pad_bits ELSE st.out_len
    IN  IF st.status # AX25_ENC_OK
        THEN [ret |-> AX25_ERROR, out |-> out,
              framelen |-> framelen, ret_len |-> Len(st.out), touched |-> 0]
        ELSE [ret |-> final_len \div 8,
              out |-> PackIntoCaller(out, st.out, st.out_len),
              framelen |-> framelen, ret_len |-> st.out_len,
              touched |-> PackTouched(st.out_len)]

\* out is the caller's buffer before the call.  The result carries the return
\* value, the buffer after the call, and the extents of the three buffer
\* writes: framelen bytes into interm_buffer, ret_len entries into
\* tmp_send_buf, touched leading bytes of out.
ax25_encode(out, in, type) ==
    LET addr == ax25_create_addr_field(GRD_CALLSIGN, GRD_SSID, SAT_CALLSIGN, SAT_SSID)
        frame == ax25_create_frame(in, type, addr, AX25_CTRL_UI, AX25_MIN_CTRL_LEN)
    IN  IF type # AX25_UI_FRAME
        THEN [ret |-> AX25_ERROR_INVALID_PARAM, out |-> out,
              framelen |-> 0, ret_len |-> 0, touched |-> 0]
        ELSE IF frame.ret = 0
        THEN [ret |-> AX25_ERROR, out |-> out,
              framelen |-> 0, ret_len |-> 0, touched |-> 0]
        ELSE EncodeFrame(out, frame.out, frame.ret)

(* ---- ax25_decode -------------------------------------------------------- *)
\* the not-found sentinel of frame_start and frame_stop; it only has to exceed
\* every bit index (the model's integers are 32-bit signed)
UINT_MAX == 2147483647

\* an entry of the bit array expanded from a byte the program does not
\* determine
UnknownBit == 2

\* res == 0 of the eight-way XOR/OR comparison at bit index i
FlagAt(ax25_frame, i) ==
    \A k \in 0..7 : ax25_frame[i + k + 1] = AX25_SYNC_FLAG_MAP_BIN[k + 1]

\* the comparison at bit index i comes out either way: no determined entry of
\* the window differs from the flag, and an entry of it is not determined
FlagOpenAt(ax25_frame, i) ==
    /\ \A k \in 0..7 : ax25_frame[i + k + 1] \in {AX25_SYNC_FLAG_MAP_BIN[k + 1], UnknownBit}
    /\ \E k \in 0..7 : ax25_frame[i + k + 1] = UnknownBit

\* the number of leading entries of the bit array that are determined
KnownBits(ax25_frame, len) ==
    LET open == {b \in 1..len : ax25_frame[b] = UnknownBit}
    IN  IF open = {} THEN len
        ELSE (CHOOSE b \in open : \A c \in open : b <= c) - 1

\* The start-flag search: first i in 0 .. len-9 with the flag, else UINT_MAX
FrameStart(ax25_frame, len) ==
    LET hits == {i \in 0..(len - 9) : FlagAt(ax25_frame, i)}
    IN  IF hits = {} THEN UINT_MAX
        ELSE CHOOSE i \in hits : \A j \in hits : i <= j

\* the search passes a window whose comparison comes out either way before it
\* ends at frame_start
FrameStartOpen(ax25_frame, len, known, frame_start) ==
    \E i \in 0..(len - 9) :
        i + 8 > known /\ i < frame_start /\ FlagOpenAt(ax25_frame, i)

\* One iteration of the content loop at bit index ds.i.  mode is "run" while
\* the loop continues, "stop" after the break on the end flag, "fail" after
\* the return on a sixth consecutive 1, "open" when the iteration depends on
\* an entry that is not determined (ds.known entries are).
DecodeBit(ds, ax25_frame) ==
    IF FlagAt(ax25_frame, ds.i)
    THEN [ds EXCEPT !.mode = "stop", !.frame_stop = ds.i]
    ELSE IF ds.i + 8 > ds.known
            /\ (FlagOpenAt(ax25_frame, ds.i) \/ ax25_frame[ds.i + 1] = UnknownBit)
    THEN [ds EXCEPT !.mode = "open"]
    ELSE IF ax25_frame[ds.i + 1] = 1
    THEN IF ds.cont_1 + 1 > AX25_MAX_CONSECUTIVE_ONES
         THEN [ds EXCEPT !.mode = "fail", !.cont_1 = ds.cont_1 + 1]
         ELSE LET byte == ds.decoded_byte + (2 ^ ds.bit_cnt)
              IN  IF ds.bit_cnt + 1 = 8
                  THEN [ds EXCEPT !.i = ds.i + 1, !.cont_1 = ds.cont_1 + 1,
                                  !.out = Append(ds.out, byte),
                                  !.bit_cnt = 0, !.decoded_byte = 0]
                  ELSE [ds EXCEPT !.i = ds.i + 1, !.cont_1 = ds.cont_1 + 1,
                                  !.bit_cnt = ds.bit_cnt + 1, !.decoded_byte = byte]
    ELSE IF ds.cont_1 >= AX25_MAX_CONSECUTIVE_ONES
    THEN [ds EXCEPT !.i = ds.i + 1, !.cont_1 = 0]
    ELSE IF ds.bit_cnt + 1 = 8
         THEN [ds EXCEPT !.i = ds.i + 1, !.cont_1 = 0,
                         !.out = Append(ds.out, ds.decoded_byte),
                         !.bit_cnt = 0, !.decoded_byte = 0]
         ELSE [ds EXCEPT !.i = ds.i + 1, !.cont_1 = 0, !.bit_cnt = ds.bit_cnt + 1]

\* Iterations i = lo .. hi of the content loop, in order; nothing more is done
\* after the break or the return.
RECURSIVE DecodeLoop(_, _, _, _)
DecodeLoop(ds, ax25_frame, lo, hi) ==
    IF lo > hi \/ ds.mode # "run" THEN ds
    ELSE IF lo = hi THEN DecodeBit(ds, ax25_frame)
    ELSE LET mid == (lo + hi) \div 2
         IN  DecodeLoop(DecodeLoop(ds, ax25_frame, lo, mid), ax25_frame, mid + 1, hi)

\* bytes stored over the caller's buffer, C index c at element c+1
Overlay(before, bytes) ==
    [c \in 1..Len(before) |-> IF c <= Len(bytes) THEN bytes[c] ELSE before[c]]

\* the caller's buffer after a call that stored bytes and went on in a way
\* the bit array does not determine
OverlayOpen(before, bytes) ==
    [c \in 1..Len(before) |-> IF c <= Len(bytes) THEN bytes[c] ELSE Indeterminate]

\* out is the caller's buffer before the call, ax25_frame the expanded bits.
\* received is the number of bytes the loop stored through out; reason tells
\* the returns apart ("ok", "noflag", "stuffing", "short", "fcs").  With
\* reason "open" the call depends on entries of ax25_frame that are not
\* determined: neither its status nor what it stores after the first
\* received bytes is.
ax25_decode(out, ax25_frame, len) ==
    LET known == KnownBits(ax25_frame, len)
        frame_start == FrameStart(ax25_frame, len)
        ds == DecodeLoop([i |-> frame_start + 8, cont_1 |-> 0, bit_cnt |-> 0,
                          decoded_byte |-> 0, out |-> << >>, mode |-> "run",
                          frame_stop |-> UINT_MAX, known |-> known],
                         ax25_frame, frame_start + 8, len - 8)
        received_bytes == Len(ds.out)
        fcs == ax25_fcs(ds.out, received_bytes - AX25_FCS_LEN)
        recv_fcs == ds.out[received_bytes - 1] * 256 + ds.out[received_bytes]
        fail(why, n, bytes) ==
            [status |-> AX25_DEC_FAIL, reason |-> why, out_len |-> 0,
             received |-> n, out |-> Overlay(out, bytes)]
        open(n, bytes) ==
            [status |-> AX25_DEC_FAIL, reason |-> "open", out_len |-> 0,
             received |-> n, out |-> OverlayOpen(out, bytes)]
    IN  IF FrameStartOpen(ax25_frame, len, known, frame_start) THEN open(0, << >>)
        ELSE IF frame_start = UINT_MAX THEN fail("noflag", 0, << >>)
        ELSE IF ds.mode = "open" THEN open(received_bytes, ds.out)
        ELSE IF ds.mode = "fail" THEN fail("stuffing", received_bytes, ds.out)
        ELSE IF ds.frame_stop = UINT_MAX \/ received_bytes < AX25_MIN_ADDR_LEN
        THEN fail("short", received_bytes, ds.out)
        ELSE IF fcs # recv_fcs THEN fail("fcs", received_bytes, ds.out)
        ELSE [status |-> AX25_DEC_OK, reason |-> "ok",
              out_len |-> received_bytes - AX25_FCS_LEN,
              received |-> received_bytes, out |-> Overlay(out, ds.out)]

(* ---- ax25_recv ---------------------------------------------------------- *)
\* tmp_recv_buf[8*i + j] = (in[i] >> (7 - j)) & 1
ExpandBits(in, len) ==
    [b \in 1..(8 * len) |->
        IF in[((b - 1) \div 8) + 1] = Indeterminate THEN UnknownBit
        ELSE BitOf(in[((b - 1) \div 8) + 1], 7 - ((b - 1) % 8))]

\* expanded is the number of tmp_recv_buf entries written
ax25_recv(out, in, len) ==
    LET d == ax25_decode(out, ExpandBits(in, len), len * 8)
    IN  [ret |-> IF d.status # AX25_DEC_OK THEN AX25_ERROR ELSE d.out_len,
         out |-> d.out, reason |-> d.reason, received |-> d.received,
         expanded |-> 8 * len]
(* ---- buffers of fixed size ---------------------------------------------- *)
(* ax25.c never receives the size of a caller buffer and does not compare   *)
(* an index with the size of a scratch array.  A call that writes outside   *)
(* one of them has undefined behaviour; what the builds of this code do     *)
(* then is: finish as if the array were large enough ("asif"), finish with  *)
(* the bytes that fell outside interm_buffer read back from the start of    *)
(* tmp_send_buf, where the leading flag bits were written over them         *)
(* ("alias"), or not return at all (fault, abort or hang: "abort").         *)

\* What the callers' buffers hold before a call: zero bytes (an array with
\* the initialiser {0}) or nothing the program determines (an array without
\* initialiser, reused from call to call, or malloc memory).
BufferFills == {0, Indeterminate}

\* a caller buffer of cap bytes before a call
CallerBuffer(cap, fill) == [c \in 1..cap |-> fill]

EncodeOverflow(e, cap) ==
    \/ e.framelen > AX25_MAX_FRAME_LEN
    \/ e.ret_len > TmpBufLen
    \/ e.touched > cap

\* interm_buffer[256 + k] read back as tmp_send_buf[k]
AliasedFrame(frame) ==
    [c \in 1..Len(frame) |->
        IF c - 1 >= AX25_MAX_FRAME_LEN
        THEN AX25_SYNC_FLAG_MAP_BIN[c - AX25_MAX_FRAME_LEN]
        ELSE frame[c]]

\* fill is what the caller's buffer held before the call, null whether the
\* caller passed NULL for in
Finished(e, how, overflow, fill, null) ==
    [ret |-> e.ret, out |-> e.out,
     framelen |-> e.framelen, ret_len |-> e.ret_len,
     touched |-> e.touched, end |-> how, ub |-> overflow, fill |-> fill,
     null |-> null]

\* assert(in != NULL) and assert(inlen <= AX25_MAX_INFO_LEN) stop the build
\* that keeps assertions; the build with NDEBUG goes on
EncodeAsserts(in, null) == null \/ Len(in) > AX25_MAX_INFO_LEN

\* null: the caller passes NULL for in, with inlen = Len(in) = 0
EncodeOutcomes(cap, in, type, fill, null) ==
    LET before == CallerBuffer(cap, fill)
        e == ax25_encode(before, in, type)
        frame == ax25_create_frame(in, type,
                     ax25_create_addr_field(GRD_CALLSIGN, GRD_SSID, SAT_CALLSIGN, SAT_SSID),
                     AX25_CTRL_UI, AX25_MIN_CTRL_LEN)
        aborted == [e EXCEPT !.ret = 0, !.out = before]
    IN  IF EncodeAsserts(in, null)
        THEN { Finished(e, "return", EncodeOverflow(e, cap), fill, null),
               Finished(aborted, "abort", EncodeOverflow(e, cap), fill, null) }
        ELSE IF ~EncodeOverflow(e, cap) THEN { Finished(e, "return", FALSE, fill, null) }
        ELSE { Finished(e, "return", TRUE, fill, null),
               Finished(aborted, "abort", TRUE, fill, null) }
             \cup (IF e.framelen > AX25_MAX_FRAME_LEN
                   THEN { Finished(EncodeFrame(before, AliasedFrame(frame.out), frame.ret),
                                   "return", TRUE, fill, null) }
                   ELSE {})

RecvOverflow(r, cap) ==
    \/ r.expanded > TmpBufLen
    \/ r.expanded < 8
    \/ r.received > cap

\* fill is what the caller's buffer held before the call
Received(r, how, overflow, fill) ==
    [ret |-> r.ret, out |-> r.out, reason |-> r.reason, received |-> r.received,
     expanded |-> r.expanded, end |-> how, ub |-> overflow, fill |-> fill]

\* The ways a call can end.  With in holding bytes the program does not
\* determine, a call whose result depends on them comes back with a value
\* and stores that are not determined either (end "open": ret is then no
\* value of the call, out holds the bytes stored before), or does not come
\* back.
RecvOutcomes(cap, in, len, fill) ==
    LET before == CallerBuffer(cap, fill)
        r == ax25_recv(before, in, len)
        open == [r EXCEPT !.ret = 0]
    IN  IF ~RecvOverflow(r, cap) /\ r.reason # "open"
        THEN { Received(r, "return", FALSE, fill) }
        ELSE { IF r.reason = "open"
               THEN Received(open, "open", RecvOverflow(r, cap), fill)
               ELSE Received(r, "return", RecvOverflow(r, cap), fill),
               Received([r EXCEPT !.ret = 0, !.out = before], "abort",
                        RecvOverflow(r, cap), fill) }

(* ---- matrix metadata ---------------------------------------------------- *)
\* sizeof(matrix_metadata_t): five uint16_t and one uint8_t, aligned to 2
SizeofMetadata == 12
\* the number of bytes encode_matrix_metadata writes and decode_matrix_metadata reads
MetadataBytes == 11
\* sizeof(temp_frame) in ax25_encode_matrix
TempFrameLen == AX25_MAX_FRAME_LEN * 2
\* the limits ax25_decode_matrix compares frame_offset and a length prefix with
StreamLimit == 50000
FrameLenLimit == 500
\* offset of the information field in a decoded UI frame: 14 addr + ctrl + PID
InfoOffset == 16

\* A serialiser that stores rows and cols low byte first: the fault
\* C5_SingleFragment has to tell from encode_matrix_metadata.
encode_matrix_metadata_le(meta) ==
    << (meta.total_chunks \div 256) % 256, meta.total_chunks % 256,
       (meta.chunk_index \div 256) % 256, meta.chunk_index % 256,
       meta.rows % 256, (meta.rows \div 256) % 256,
       meta.cols % 256, (meta.cols \div 256) % 256,
       (meta.data_len \div 256) % 256, meta.data_len % 256,
       meta.element_size >>

encode_matrix_metadata(meta) ==
    << (meta.total_chunks \div 256) % 256, meta.total_chunks % 256,
       (meta.chunk_index \div 256) % 256, meta.chunk_index % 256,
       (meta.rows \div 256) % 256, meta.rows % 256,
       (meta.cols \div 256) % 256, meta.cols % 256,
       (meta.data_len \div 256) % 256, meta.data_len % 256,
       meta.element_size >>

\* buffer holds the bytes from decode_buffer + 16 on
decode_matrix_metadata(buffer) ==
    [total_chunks |-> (buffer[1] * 256 + buffer[2]) % 65536,
     chunk_index |-> (buffer[3] * 256 + buffer[4]) % 65536,
     rows |-> (buffer[5] * 256 + buffer[6]) % 65536,
     cols |-> (buffer[7] * 256 + buffer[8]) % 65536,
     data_len |-> (buffer[9] * 256 + buffer[10]) % 65536,
     element_size |-> buffer[11]]

(* ---- ax25_encode_matrix ------------------------------------------------- *)
ChunkDataSize ==
    IF MATRIX_CHUNK_SIZE > AX25_MAX_INFO_LEN - SizeofMetadata
    THEN AX25_MAX_INFO_LEN - SizeofMetadata
    ELSE MATRIX_CHUNK_SIZE

\* ChunkCount with the division rounding down: a last fragment shorter than
\* chunk_data_size is never produced
ChunkCountFloor(total_size) == total_size \div ChunkDataSize

ChunkCount(total_size) == (total_size + ChunkDataSize - 1) \div ChunkDataSize

\* StoreChunk with the length prefix stored low byte first
StoreChunkPrefixLowFirst(es, e, to_encode) ==
    IF e.ret < 0
    THEN [es EXCEPT !.status = AX25_ERROR]
    ELSE [es EXCEPT
            !.frames = es.frames \o << e.ret % 256, (e.ret \div 256) % 256 >>
                       \o SubSeq(e.out, 1, e.ret),
            !.offset = es.offset + to_encode,
            !.lens = Append(es.lens, e.ret),
            !.ub = es.ub \/ EncodeOverflow(e, TempFrameLen)]

\* The end of an iteration of the chunk loop: e is what ax25_encode returned
\* for the chunk of to_encode bytes.  es carries the bytes stored through
\* frames so far (total_bytes = Len(es.frames)), offset, the lengths
\* ax25_encode returned, and whether one of its scratch writes overflowed.
StoreChunk(es, e, to_encode) ==
    IF e.ret < 0
    THEN [es EXCEPT !.status = AX25_ERROR]
    ELSE [es EXCEPT
            !.frames = es.frames \o << (e.ret \div 256) % 256, e.ret % 256 >>
                       \o SubSeq(e.out, 1, e.ret),
            !.offset = es.offset + to_encode,
            !.lens = Append(es.lens, e.ret),
            !.ub = es.ub \/ EncodeOverflow(e, TempFrameLen)]

\* One iteration of the chunk loop: metadata and data into chunk_buffer,
\* ax25_encode into temp_frame, length prefix and frame into frames.
EncodeChunk(es, matrix, rows, cols, element_size, chunks, i) ==
    LET total_size == rows * cols * element_size
        remaining == total_size - es.offset
        to_encode == IF remaining < ChunkDataSize THEN remaining ELSE ChunkDataSize
        meta == [total_chunks |-> chunks % 65536, chunk_index |-> i % 65536,
                 rows |-> rows, cols |-> cols,
                 data_len |-> to_encode % 65536, element_size |-> element_size]
        chunk_buffer == encode_matrix_metadata(meta)
                        \o [k \in 1..to_encode |-> matrix[es.offset + k]]
    IN  StoreChunk(es,
                   ax25_encode(CallerBuffer(TempFrameLen, Indeterminate), chunk_buffer, AX25_UI_FRAME),
                   to_encode)

\* iterations i = lo .. hi of the chunk loop, in order
RECURSIVE EncodeChunks(_, _, _, _, _, _, _, _)
EncodeChunks(es, matrix, rows, cols, element_size, chunks, lo, hi) ==
    IF lo > hi \/ es.status # 0 THEN es
    ELSE IF lo = hi THEN EncodeChunk(es, matrix, rows, cols, element_size, chunks, lo)
    ELSE LET mid == (lo + hi) \div 2
         IN  EncodeChunks(EncodeChunks(es, matrix, rows, cols, element_size, chunks, lo, mid),
                          matrix, rows, cols, element_size, chunks, mid + 1, hi)

\* what ax25_encode_matrix hands back once the chunk loop ended in state es
EncodedMatrix(es, chunks) ==
    IF es.status # 0
    THEN [ret |-> AX25_ERROR, frames |-> es.frames, frame_count |-> 0,
          lens |-> es.lens, ub |-> es.ub]
    ELSE [ret |-> Len(es.frames), frames |-> es.frames, frame_count |-> chunks,
          lens |-> es.lens, ub |-> es.ub]

\* frames is the byte sequence stored through the caller's pointer (it has no
\* size to compare with); frame_count is 0, the caller's initial value, when
\* the call fails.
ax25_encode_matrix(matrix, rows, cols, element_size) ==
    EncodedMatrix(
        EncodeChunks([frames |-> << >>, offset |-> 0, lens |-> << >>,
                      status |-> 0, ub |-> FALSE],
                     matrix, rows, cols, element_size,
                     ChunkCount(rows * cols * element_size),
                     0, ChunkCount(rows * cols * element_size) - 1),
        ChunkCount(rows * cols * element_size))

(* ---- ax25_decode_matrix ------------------------------------------------- *)
\* a read at C index c of a buffer; what lies outside the buffer is not
\* determined by the program
ByteAt(buffer, c) == IF c < Len(buffer) THEN buffer[c + 1] ELSE Indeterminate

\* The end of an iteration of the frame loop: r is what ax25_recv returned
\* for the current_frame_len bytes at frame_offset.  ms carries the bytes
\* stored through matrix so far (offset = Len(ms.matrix)), frame_offset, the
\* out-parameters, and whether a read or write left its buffer.  The bytes
\* the memcpy takes from beyond decode_buffer are Indeterminate.  When
\* ax25_recv depended on bytes from beyond the stream (reason "open"), what
\* the call does from here on is not determined.
StoreFrame(ms, frames, i, frame_offset, current_frame_len, r) ==
    LET meta == decode_matrix_metadata(SubSeq(r.out, InfoOffset + 1, InfoOffset + MetadataBytes))
        data == [c \in 1..meta.data_len |-> ByteAt(r.out, InfoOffset + MetadataBytes + c - 1)]
    IN  IF r.reason = "open"
        THEN [ms EXCEPT !.status = AX25_ERROR, !.open = TRUE, !.over = TRUE]
        ELSE IF r.ret < AX25_MIN_ADDR_LEN + 2
        THEN [ms EXCEPT !.status = AX25_ERROR,
                        !.over = ms.over \/ frame_offset + current_frame_len > Len(frames)
                                 \/ RecvOverflow(r, AX25_MAX_FRAME_LEN)]
        ELSE [ms EXCEPT
                !.rows = IF i = 0 THEN meta.rows ELSE ms.rows,
                !.cols = IF i = 0 THEN meta.cols ELSE ms.cols,
                !.element_size = IF i = 0 THEN meta.element_size ELSE ms.element_size,
                !.matrix = ms.matrix \o data,
                !.frame_offset = frame_offset + current_frame_len,
                !.over = ms.over \/ frame_offset + current_frame_len > Len(frames)
                         \/ RecvOverflow(r, AX25_MAX_FRAME_LEN)
                         \/ InfoOffset + MetadataBytes + meta.data_len > AX25_MAX_FRAME_LEN]

\* One iteration of the frame loop: the offset check, the length prefix and
\* its check, ax25_recv into decode_buffer.  frames is the stream the caller
\* prepared; the function has no length of it, and the bytes it reads from
\* beyond its end are Indeterminate.  With a length prefix read from there,
\* what the call does from here on is not determined.
DecodeChunk(ms, frames, i) ==
    LET high == ByteAt(frames, ms.frame_offset)
        low == ByteAt(frames, ms.frame_offset + 1)
        current_frame_len == high * 256 + low
        frame_offset == ms.frame_offset + 2
        in == [c \in 1..current_frame_len |-> ByteAt(frames, frame_offset + c - 1)]
    IN  IF ms.frame_offset + 2 > StreamLimit
        THEN [ms EXCEPT !.status = AX25_ERROR]
        ELSE IF high = Indeterminate \/ low = Indeterminate
        THEN [ms EXCEPT !.status = AX25_ERROR, !.open = TRUE, !.over = TRUE]
        ELSE IF current_frame_len = 0 \/ current_frame_len > FrameLenLimit
        THEN [ms EXCEPT !.status = AX25_ERROR]
        ELSE StoreFrame(ms, frames, i, frame_offset, current_frame_len,
                        ax25_recv([c \in 1..AX25_MAX_FRAME_LEN |-> 0], in, current_frame_len))

\* iterations i = lo .. hi of the frame loop, in order
RECURSIVE DecodeChunks(_, _, _, _)
DecodeChunks(ms, frames, lo, hi) ==
    IF lo > hi \/ ms.status # 0 THEN ms
    ELSE IF lo = hi THEN DecodeChunk(ms, frames, lo)
    ELSE LET mid == (lo + hi) \div 2
         IN  DecodeChunks(DecodeChunks(ms, frames, lo, mid), frames, mid + 1, hi)

\* what ax25_decode_matrix hands back once the frame loop ended in state ms;
\* with ms.open the fields hold what was stored before the iteration that
\* read beyond the stream
DecodedMatrix(ms) ==
    [ret |-> IF ms.status # 0 THEN AX25_ERROR ELSE Len(ms.matrix),
     matrix |-> ms.matrix, rows |-> ms.rows, cols |-> ms.cols,
     element_size |-> ms.element_size, over |-> ms.over, open |-> ms.open]

\* rows, cols and element_size are the caller's variables before the call;
\* matrix in the result is the byte sequence stored through the caller's
\* pointer, from index 0 on.
ax25_decode_matrix(rows, cols, element_size, frames, frame_count) ==
    DecodedMatrix(
        DecodeChunks([matrix |-> << >>, frame_offset |-> 0, rows |-> rows,
                      cols |-> cols, element_size |-> element_size,
                      status |-> 0, over |-> FALSE, open |-> FALSE],
                     frames, 0, frame_count - 1))

\* A call that came back.  With m.open it came back after reading beyond the
\* stream, with a value and stores the program does not determine (end
\* "open"): ret is then no value of the call, and matrix, rows, cols and
\* element_size are those of the iterations before.
DecodeReturned(m) ==
    [ret |-> IF m.open THEN 0 ELSE m.ret,
     matrix |-> m.matrix, rows |-> m.rows, cols |-> m.cols,
     element_size |-> m.element_size, over |-> m.over,
     end |-> IF m.open THEN "open" ELSE "return"]

\* a call that did not come back (the failed assertion, a signal, or a loop
\* that never ends after an access outside a buffer); the caller's variables
\* are as before the call
DecodeAborted(rows, cols, element_size, over) ==
    [ret |-> 0, matrix |-> << >>, rows |-> rows, cols |-> cols,
     element_size |-> element_size, over |-> over, end |-> "abort"]

\* assert(frame_count > 0U) stops the build that keeps assertions; the build
\* with NDEBUG goes on
DecodeAsserts(frame_count) == frame_count = 0

\* The ways a call with result m can end.  While every access stays inside
\* its buffer and no assertion fails the call returns m.  Once an access
\* leaves its buffer the behavior is undefined: the call comes back with m,
\* the bytes it took from outside being Indeterminate, or it does not come
\* back.
DecodeOutcomesOf(m, rows, cols, element_size, asserts) ==
    IF ~m.over /\ ~asserts THEN { DecodeReturned(m) }
    ELSE { DecodeReturned(m), DecodeAborted(rows, cols, element_size, m.over) }

DecodeMatrixOutcomes(rows, cols, element_size, frames, frame_count) ==
    DecodeOutcomesOf(ax25_decode_matrix(rows, cols, element_size, frames, frame_count),
                     rows, cols, element_size, DecodeAsserts(frame_count))

(* ---- the calling program ------------------------------------------------ *)
VARIABLES
    pc,        \* "idle", "encoded", "delivered", "received",
               \* "m_encoded", "m_decoded", "m_received", "m_chunk",
               \* "m_stream", "called"
    payload,   \* the bytes handed to ax25_encode
    ftype,     \* the frame type handed to ax25_encode
    tx,        \* how the ax25_encode call ended
    rx_in,     \* the wire bytes handed to ax25_recv
    flip,      \* index of the wire bit inverted in transit, -1 if none
    rx,        \* how the ax25_recv call ended
    mat,       \* the matrix handed to ax25_encode_matrix
    mtx,       \* the result of ax25_encode_matrix
    mrx,       \* how the ax25_decode_matrix call ended
    call       \* a direct call of one of the frame-building functions

vars == << pc, payload, ftype, tx, rx_in, flip, rx, mat, mtx, mrx, call >>

NoTx == [ret |-> 0, out |-> << >>, framelen |-> 0, ret_len |-> 0, touched |-> 0,
         end |-> "none", ub |-> FALSE, fill |-> 0, null |-> FALSE]
NoRx == [ret |-> 0, out |-> << >>, reason |-> "none", received |-> 0,
         expanded |-> 0, end |-> "none", ub |-> FALSE, fill |-> 0]

NoCall == [fn |-> "none", args |-> << >>, end |-> "none", ret |-> 0, out |-> << >>]

NoMat == [rows |-> 0, cols |-> 0, element_size |-> 0, kind |-> "none"]
NoMtx == [ret |-> 0, frames |-> << >>, frame_count |-> 0, lens |-> << >>, ub |-> FALSE]
NoMrx == [ret |-> 0, matrix |-> << >>, rows |-> 0, cols |-> 0, element_size |-> 0,
          over |-> FALSE, end |-> "none"]

(* inputs *)
SmallLen == 3

Fill(v, n) == [i \in 1..n |-> v]
Ramp(n) == [i \in 1..n |-> (i - 1) % 256]
SizeRamp(n) == [i \in 1..n |-> (n + i - 1) % 256]

FillBytes == {0, 255, 126, 31}
PayloadLens == (0..SmallLen) \cup {100, 200, 223, 224, 235, 236, 237, 238, 239, 240, 241}

FrameTypes == {AX25_I_FRAME, AX25_S_FRAME, AX25_U_FRAME, AX25_UI_FRAME}

\* "Hello", "Test Data" with its NUL, four flag bytes, a stuffing-heavy frame,
\* and "X" and "8", whose frames end with five and with ten 1 bits (FCS
\* A4 F9 and C7 FF)
Literals == { << 72, 101, 108, 108, 111 >>,
              << 84, 101, 115, 116, 32, 68, 97, 116, 97, 0 >>,
              << 126, 126, 126, 126 >>,
              << 255, 62, 124, 126, 126, 248, 31, 126 >>,
              << 88 >>, << 56 >> }

Payloads ==
    { Fill(v, n) : v \in FillBytes, n \in PayloadLens }
    \cup { Ramp(n) : n \in PayloadLens } \cup { SizeRamp(n) : n \in PayloadLens }
    \cup Literals

\* the sizes of the arrays the callers encode into
EncodeCaps == {AX25_MAX_FRAME_LEN, 2 * AX25_MAX_FRAME_LEN}

FlipBit(bytes, k) ==
    [c \in 1..Len(bytes) |->
        IF c - 1 = k \div 8
        THEN Xor(bytes[c], 2 ^ (7 - (k % 8)))
        ELSE bytes[c]]

Init ==
    /\ pc = "idle"
    /\ payload = << >>
    /\ ftype = AX25_UI_FRAME
    /\ tx = NoTx
    /\ rx_in = << >>
    /\ flip = -1
    /\ rx = NoRx
    /\ mat = NoMat
    /\ mtx = NoMtx
    /\ mrx = NoMrx
    /\ call = NoCall

\* a caller encodes in into its array of cap bytes; with null it passes NULL
\* and a length of 0 instead of a payload
Encode(in, type, cap, fill, null) ==
    /\ pc = "idle"
    /\ pc' = "encoded"
    /\ payload' = in
    /\ ftype' = type
    /\ tx' \in EncodeOutcomes(cap, in, type, fill, null)
    /\ UNCHANGED << rx_in, flip, rx, mat, mtx, mrx, call >>

\* the caller goes on with the tx.ret bytes of a call that returned a length
HasWire == tx.end = "return" /\ tx.ret > 0

\* the enc_len bytes the caller hands on: those of its array and, when the
\* call returned more than the array holds, what lies behind the array by
\* then, which the program does not determine (the call stored bytes there
\* over objects of the caller, and they are assigned again before the read)
Wire == [c \in 1..tx.ret |-> ByteAt(tx.out, c - 1)]

\* the wire frame reaches the receiver unchanged
Deliver ==
    /\ pc = "encoded"
    /\ HasWire
    /\ pc' = "delivered"
    /\ rx_in' = Wire
    /\ flip' = -1
    /\ UNCHANGED << payload, ftype, tx, rx, mat, mtx, mrx, call >>

\* one bit of the wire frame is inverted in transit
Corrupt(k) ==
    /\ pc = "encoded"
    /\ HasWire /\ ~tx.ub
    /\ Len(payload) <= SmallLen \/ payload \in Literals
    /\ k \in 0..(8 * tx.ret - 1)
    /\ pc' = "delivered"
    /\ rx_in' = FlipBit(Wire, k)
    /\ flip' = k
    /\ UNCHANGED << payload, ftype, tx, rx, mat, mtx, mrx, call >>

\* bytes that did not come from ax25_encode reach the receiver: nothing at
\* all, noise, a lone flag, frames cut short, frames without FCS, a stuffing
\* violation, a frame after a leading zero byte
Flagged(body) == << AX25_FLAG >> \o body \o << AX25_FLAG >>

NoiseBytes == {0, 126, 255, 63}

Wires ==
    { << >> }
    \cup { << a >> : a \in NoiseBytes }
    \cup { << a, b >> : a \in NoiseBytes, b \in NoiseBytes }
    \cup { Flagged(Fill(v, n)) : v \in {0, 85}, n \in {0, 1, 13, 14, 16} }
    \cup { << AX25_FLAG >> \o Fill(v, n) : v \in {0, 85}, n \in {2, 20} }
    \cup { Flagged(Fill(0, n) \o << 3, 248 >> \o Fill(0, 16 - n)) : n \in {0, 8, 16} }
    \cup { Flagged(Fill(0, 16) \o << 254 >>), Flagged(Fill(0, 16)) \o << 255 >> }

Inject(w) ==
    /\ pc = "idle"
    /\ pc' = "delivered"
    /\ rx_in' = w
    /\ flip' = -1
    /\ UNCHANGED << payload, ftype, tx, rx, mat, mtx, mrx, call >>

Recv(fill) ==
    /\ pc = "delivered"
    /\ pc' = "received"
    /\ rx' \in RecvOutcomes(AX25_MAX_FRAME_LEN, rx_in, Len(rx_in), fill)
    /\ UNCHANGED << payload, ftype, tx, rx_in, flip, mat, mtx, mrx, call >>

Next ==
    \/ \E in \in Payloads : \E type \in FrameTypes : \E cap \in EncodeCaps :
          \E fill \in BufferFills : Encode(in, type, cap, fill, FALSE)
    \/ \E type \in FrameTypes : \E cap \in EncodeCaps : \E fill \in BufferFills :
          Encode(<< >>, type, cap, fill, TRUE)
    \/ Deliver
    \/ \E k \in 0..(8 * (AX25_MAX_FRAME_LEN + 64) - 1) : Corrupt(k)
    \/ \E w \in Wires : Inject(w)
    \/ \E fill \in BufferFills : Recv(fill)

Spec == Init /\ [][Next]_vars

(* ---- the calling program, matrix layer ---------------------------------- *)
MaxDim == 3

\* the flat byte image of a matrix: "ramp" is byte k = k mod 256 (the 5x5 test
\* matrix M[i][j] = 5i + j), "ones" is 0xFF everywhere, "zeros" 0x00
MatrixImage(m) ==
    [k \in 1..(m.rows * m.cols * m.element_size) |->
        IF m.kind = "ramp" THEN (k - 1) % 256
        ELSE IF m.kind = "ones" THEN 255 ELSE 0]

Matrix(r, c, e, k) == [rows |-> r, cols |-> c, element_size |-> e, kind |-> k]

Matrices ==
    { Matrix(r, c, e, k) : r \in 1..MaxDim, c \in 1..MaxDim, e \in {1, 2, 4},
                           k \in {"ramp", "ones"} }
    \cup { Matrix(5, 5, 1, "ramp"), Matrix(10, 20, 1, "ones"), Matrix(1, 1, 200, "ramp"),
           Matrix(3, 67, 1, "ramp"), Matrix(1, 201, 1, "ones"),
           Matrix(25, 4, 4, "ramp"), Matrix(10, 100, 1, "ones"),
           Matrix(217, 200, 1, "zeros") }

EncodeMatrix(m) ==
    /\ pc = "idle"
    /\ pc' = "m_encoded"
    /\ mat' = m
    /\ mtx' = ax25_encode_matrix(MatrixImage(m), m.rows, m.cols, m.element_size)
    /\ UNCHANGED << payload, ftype, tx, rx_in, flip, rx, mrx, call >>

\* the caller passes the stream and the frame count it was given, with its
\* rows, cols and element size variables initialised to 0
DecodeMatrix ==
    /\ pc = "m_encoded"
    /\ mtx.ret > 0
    /\ pc' = "m_decoded"
    /\ mrx' \in DecodeMatrixOutcomes(0, 0, 0, mtx.frames, mtx.frame_count)
    /\ UNCHANGED << payload, ftype, tx, rx_in, flip, rx, mat, mtx, call >>

\* a single-fragment stream decoded by hand: ax25_recv on the bytes after
\* the 2-byte length prefix
RecvFragment(fill) ==
    /\ pc = "m_encoded"
    /\ mtx.ret > 0 /\ mtx.frame_count = 1
    /\ pc' = "m_received"
    /\ rx_in' = SubSeq(mtx.frames, 3, 2 + mtx.frames[1] * 256 + mtx.frames[2])
    /\ rx' \in RecvOutcomes(AX25_MAX_FRAME_LEN, rx_in', Len(rx_in'), fill)
    /\ UNCHANGED << payload, ftype, tx, flip, mat, mtx, mrx, call >>

\* matrices the preconditions accept whose image is too large to hold whole
BigMatrices ==
    { Matrix(1000, 1000, e, "zeros") : e \in {13, 14, 255} }
    \cup { Matrix(1000, 655, 20, "ones"), Matrix(1000, 1000, 2, "ramp") }

\* iterations of the chunk loop looked at for a matrix of chunks fragments
ChunkIndexes(chunks) ==
    { i \in {0, 1, 2, 255, 256, 9999, 65534, 65535, 65536, 65537, chunks - 2, chunks - 1} :
        i < chunks }

\* Iteration i of the chunk loop of ax25_encode_matrix on a large matrix.  The
\* loop enters iteration i with offset = i * chunk_data_size, every earlier
\* iteration having added chunk_data_size; the bytes stored through frames by
\* the earlier iterations are not kept, call.out is the fragment of this one
\* (length prefix and frame) and call.ret the length ax25_encode returned.
ChunkStored(m, i, es) ==
    [fn |-> "chunk", args |-> << m.rows, m.cols, m.element_size, i >>, end |-> "return",
     ret |-> IF es.status # 0 THEN AX25_ERROR ELSE es.lens[1], out |-> es.frames]

EncodeMatrixChunk(m, i) ==
    /\ pc = "idle"
    /\ pc' = "m_chunk"
    /\ mat' = m
    /\ call' = ChunkStored(m, i,
                  EncodeChunk([frames |-> << >>, offset |-> i * ChunkDataSize, lens |-> << >>,
                               status |-> 0, ub |-> FALSE],
                              MatrixImage(m), m.rows, m.cols, m.element_size,
                              ChunkCount(m.rows * m.cols * m.element_size), i))
    /\ UNCHANGED << payload, ftype, tx, rx_in, flip, rx, mtx, mrx >>

\* a unit of a fragment stream: the 2-byte length prefix and the bytes
\* ax25_encode returned in e
UnitOf(e) == << (e.ret \div 256) % 256, e.ret % 256 >> \o SubSeq(e.out, 1, e.ret)

Unit(info) ==
    UnitOf(ax25_encode(CallerBuffer(TempFrameLen, Indeterminate), info, AX25_UI_FRAME))

\* the information field of a fragment: metadata record, then data
FragmentInfo(total_chunks, chunk_index, rows, cols, data_len, element_size, data) ==
    encode_matrix_metadata([total_chunks |-> total_chunks, chunk_index |-> chunk_index,
                            rows |-> rows, cols |-> cols, data_len |-> data_len,
                            element_size |-> element_size]) \o data

\* Streams handed to ax25_decode_matrix that ax25_encode_matrix did not
\* produce; every frame in them is a frame ax25_encode built (flags and FCS
\* are right).  Two-fragment streams whose second fragment agrees with the
\* first or differs from it in rows, cols or element_size; one-fragment
\* streams whose information field is shorter than a metadata record or
\* shorter than the data_len its metadata announces; one-fragment streams
\* whose length prefix is near the ends of 1..500 and near 256 and 288, the
\* frame being zero bytes between two flags, or a fragment ax25_encode built
\* followed by zero bytes; the one-fragment stream Fragment and its leading
\* bytes, handed over with a frame count of 0, 1 or 2, and Fragment with a
\* length prefix that reaches beyond its end.
Fragment == Unit(FragmentInfo(1, 0, 1, 2, 2, 1, << 7, 9 >>))

Streams ==
    { [frames |-> << L \div 256, L % 256 >> \o Flagged(Fill(0, L - 2)), count |-> 1] :
        L \in {2, 20, 258, 259, 288, 289, 300, 500, 501} }
    \cup { [frames |-> << L \div 256, L % 256 >>
                       \o SubSeq(Unit(FragmentInfo(1, 0, 1, 2, 2, 1, << 7, 9 >>))
                                 \o Fill(0, L), 3, L + 2),
            count |-> 1] : L \in {48, 288, 289, 500} }
    \cup
    { [frames |-> Unit(FragmentInfo(2, 0, 3, 67, 200, 1, Ramp(200)))
                  \o Unit(FragmentInfo(2, 1, d[1], d[2], 1, d[3], << 200 >>)),
       count |-> 2] :
        d \in { << 3, 67, 1 >>, << 1, 201, 1 >>, << 67, 3, 1 >>, << 3, 68, 1 >>,
                << 4, 67, 1 >>, << 3, 67, 4 >>, << 0, 0, 0 >> } }
    \cup { [frames |-> Unit(FragmentInfo(2, 0, 2, 2, 2, 1, << 1, 2 >>))
                       \o Unit(FragmentInfo(2, 1, d[1], d[2], 2, d[3], << 3, 4 >>)),
            count |-> 2] :
             d \in { << 2, 2, 1 >>, << 4, 1, 1 >>, << 2, 2, 2 >>, << 1, 1, 1 >> } }
    \cup { [frames |-> Unit(info), count |-> 1] :
             info \in { << >>, << 1 >>, Ramp(5), Ramp(10), Fill(255, 10) } }
    \cup { [frames |-> SubSeq(Fragment, 1, n), count |-> c] :
             n \in {0, 1, 2, 20, Len(Fragment) - 2, Len(Fragment) - 1, Len(Fragment)},
             c \in {0, 1, 2} }
    \cup { [frames |-> << 0, Len(Fragment) + 3 >> \o SubSeq(Fragment, 3, Len(Fragment)),
            count |-> 1] }
    \cup { [frames |-> Unit(FragmentInfo(1, 0, r, 1, n, 1, Fill(170, k))), count |-> 1] :
             r \in {1, 5}, n \in {0, 1, 5, 200, 229, 230, 300, 65535}, k \in {0, 1, 5} }

\* the caller passes a stream and a frame count, with its rows, cols and
\* element size variables initialised to 0
DecodeStream(s) ==
    /\ pc = "idle"
    /\ pc' = "m_stream"
    /\ call' = [fn |-> "decode_matrix", args |-> << s.frames, s.count >>, end |-> "return",
                ret |-> 0, out |-> << >>]
    /\ mrx' \in DecodeMatrixOutcomes(0, 0, 0, s.frames, s.count)
    /\ UNCHANGED << payload, ftype, tx, rx_in, flip, rx, mat, mtx >>

MNext ==
    \/ \E m \in Matrices : EncodeMatrix(m)
    \/ \E s \in Streams : DecodeStream(s)
    \/ \E m \in BigMatrices :
         \E i \in ChunkIndexes(ChunkCount(m.rows * m.cols * m.element_size)) :
            EncodeMatrixChunk(m, i)
    \/ DecodeMatrix
    \/ \E fill \in BufferFills : RecvFragment(fill)

SpecMatrix == Init /\ [][MNext]_vars

(* ---- the calling program, direct calls --------------------------------- *)
\* how a direct call ended: end is "return" or, when an assertion stopped the
\* build that keeps assertions, "abort"; out is the bytes written through out
Called(fn, args, how, ret, out) ==
    [fn |-> fn, args |-> args, end |-> how, ret |-> ret, out |-> out]

\* callsigns as the bytes before the terminating NUL: empty, "A", "AB",
\* "DEST", "SRC", "PARSAT", eight letters, two bytes with the top bit set
Callsigns ==
    { << >>, << 65 >>, << 65, 66 >>, << 68, 69, 83, 84 >>, << 83, 82, 67 >>,
      << 80, 65, 82, 83, 65, 84 >>, << 65, 66, 67, 68, 69, 70, 71, 72 >>,
      << 200, 255 >> }

\* SSID arguments (uint8_t): in range, and out of range
Ssids == {0, 3, 5, 15, 16, 255}

\* assert(dest_ssid <= 15U) and assert(src_ssid <= 15U)
AddrFieldAsserts(dest_ssid, src_ssid) == dest_ssid > 15 \/ src_ssid > 15

AddrFieldOutcomes(dest_addr, dest_ssid, src_addr, src_ssid) ==
    { Called("addr", << dest_addr, dest_ssid, src_addr, src_ssid >>, "return",
             AX25_MIN_ADDR_LEN,
             ax25_create_addr_field(dest_addr, dest_ssid, src_addr, src_ssid)) }
    \cup (IF AddrFieldAsserts(dest_ssid, src_ssid)
          THEN { Called("addr", << dest_addr, dest_ssid, src_addr, src_ssid >>,
                        "abort", 0, << >>) }
          ELSE {})

CallAddrField(dest_addr, dest_ssid, src_addr, src_ssid) ==
    /\ pc = "idle"
    /\ pc' = "called"
    /\ call' \in AddrFieldOutcomes(dest_addr, dest_ssid, src_addr, src_ssid)
    /\ UNCHANGED << payload, ftype, tx, rx_in, flip, rx, mat, mtx, mrx >>

\* arguments of ax25_create_frame: info, the address bytes (addr_len of them),
\* the control value and its length
FrameInfos == { << >>, << 65 >>, << 72, 101, 108, 108, 111 >>, Fill(0, 240), Fill(255, 241) }

FrameAddrs ==
    { ax25_create_addr_field(<< 68, 69, 83, 84 >>, 0, << 83, 82, 67 >>, 0),
      ax25_create_addr_field(GRD_CALLSIGN, GRD_SSID, SAT_CALLSIGN, SAT_SSID),
      ax25_create_addr_field(<< 68, 69, 83, 84 >>, 0, << 83, 82, 67 >>, 0)
        \o ax25_create_addr_field(GRD_CALLSIGN, GRD_SSID, SAT_CALLSIGN, SAT_SSID),
      << 136, 138, 166, 168, 64, 64, 97 >> }

FrameCtrls == { AX25_CTRL_UI, 4660 }

FrameCtrlLens == 0..3

\* the three assert lines on info_len, addr_len and ctrl_len
FrameAsserts(info, addr, ctrl_len) ==
    \/ Len(info) > AX25_MAX_INFO_LEN
    \/ Len(addr) \notin {AX25_MIN_ADDR_LEN, AX25_MAX_ADDR_LEN}
    \/ ctrl_len \notin {AX25_MIN_CTRL_LEN, AX25_MAX_CTRL_LEN}

\* the result of ax25_create_frame is computed once and handed on
FrameCalled(args, frame, asserts) ==
    { Called("frame", args, "return", frame.ret, frame.out) }
    \cup (IF asserts THEN { Called("frame", args, "abort", 0, << >>) } ELSE {})

CreateFrameOutcomes(info, type, addr, ctrl, ctrl_len) ==
    FrameCalled(<< info, type, addr, ctrl, ctrl_len >>,
                ax25_create_frame(info, type, addr, ctrl, ctrl_len),
                FrameAsserts(info, addr, ctrl_len))

CallCreateFrame(info, type, addr, ctrl, ctrl_len) ==
    /\ pc = "idle"
    /\ pc' = "called"
    /\ call' \in CreateFrameOutcomes(info, type, addr, ctrl, ctrl_len)
    /\ UNCHANGED << payload, ftype, tx, rx_in, flip, rx, mat, mtx, mrx >>

\* buffers handed to ax25_fcs: every single byte, the test vectors
\* 01 02 03 04 05 and 01 02 03 04 06, "123456789", and short runs
FcsBuffers ==
    { << b >> : b \in 0..255 }
    \cup { << a, b >> : a \in {0, 1, 128, 255}, b \in {0, 1, 128, 255} }
    \cup { << 1, 2, 3, 4, 5 >>, << 1, 2, 3, 4, 6 >>,
           << 49, 50, 51, 52, 53, 54, 55, 56, 57 >>,
           Fill(0, 16), Fill(255, 16), Ramp(64) }

CallFcs(buffer) ==
    /\ pc = "idle"
    /\ pc' = "called"
    /\ call' = Called("fcs", << buffer >>, "return", ax25_fcs(buffer, Len(buffer)), << >>)
    /\ UNCHANGED << payload, ftype, tx, rx_in, flip, rx, mat, mtx, mrx >>

UNext ==
    \/ \E d \in Callsigns : \E ds \in Ssids : \E c \in Callsigns : \E cs \in Ssids :
          CallAddrField(d, ds, c, cs)
    \/ \E info \in FrameInfos : \E type \in FrameTypes : \E addr \in FrameAddrs :
          \E ctrl \in FrameCtrls : \E ctrl_len \in FrameCtrlLens :
             CallCreateFrame(info, type, addr, ctrl, ctrl_len)
    \/ \E buffer \in FcsBuffers : CallFcs(buffer)

SpecUnit == Init /\ [][UNext]_vars

(* ======================================================================= *)
(* Properties                                                               *)
(* ======================================================================= *)

\* the 16 bytes a decoded UI frame starts with: address field, control, PID
Header ==
    ax25_create_addr_field(GRD_CALLSIGN, GRD_SSID, SAT_CALLSIGN, SAT_SSID)
    \o << AX25_CTRL_UI, AX25_PID_NO_LAYER3 >>

\* the encode call was given a payload, and an array that holds every byte
\* the call stores
CallFits == ~tx.null /\ tx.touched <= Len(tx.out)

\* C1: every payload of 0..235 bytes, whatever its bytes, is encoded to a
\* positive length, and ax25_recv on those bytes returns 16 + |p| with the
\* buffer holding the fixed 16-byte header followed by the payload.
C1_RoundTrip ==
    /\ (pc = "encoded" /\ ftype = AX25_UI_FRAME /\ Len(payload) <= 235 /\ CallFits)
         => (tx.end = "return" /\ tx.ret > 0)
    /\ (pc = "received" /\ flip = -1 /\ Len(payload) <= 235 /\ CallFits)
         => /\ rx.end = "return"
            /\ rx.ret = 16 + Len(payload)
            /\ SubSeq(rx.out, 1, rx.ret) = Header \o payload

\* C2: ax25_recv on a wire frame with one bit inverted, wherever the bit is,
\* returns a negative code.
C2_FlipDetected ==
    (pc = "received" /\ flip >= 0) => (rx.end = "return" /\ rx.ret < 0)

\* C3: when the frame between the flags fails the FCS comparison, ax25_recv
\* returns -4, and returns another code for the other decode failures.
C3_FcsMismatchCode ==
    (pc = "received" /\ rx.end = "return")
        => /\ rx.reason = "fcs" => rx.ret = AX25_ERROR_FCS_MISMATCH
           /\ rx.reason \in {"noflag", "stuffing", "short"} => rx.ret # AX25_ERROR_FCS_MISMATCH

\* the matrix handed to ax25_encode_matrix, as bytes
Image == MatrixImage(mat)

\* C4: for every matrix the preconditions accept, ax25_decode_matrix on the
\* stream and frame count of ax25_encode_matrix returns rows*cols*element_size,
\* sets rows, cols and element_size to the inputs and writes the input image.
C4_MatrixRoundTrip ==
    /\ (pc = "m_encoded") => (mtx.ret > 0 /\ ~mtx.ub)
    /\ (pc = "m_decoded")
         => /\ mrx.ret = mat.rows * mat.cols * mat.element_size
            /\ mrx.rows = mat.rows /\ mrx.cols = mat.cols
            /\ mrx.element_size = mat.element_size
            /\ mrx.matrix = Image

\* the matrix fits one fragment
SingleFragment == mat.rows * mat.cols * mat.element_size <= MATRIX_CHUNK_SIZE

\* C5: a matrix of at most 200 bytes is encoded as exactly one fragment;
\* ax25_decode_matrix with frame_count 1, and ax25_recv on the bytes after the
\* 2-byte length prefix followed by skipping 16 header and 11 metadata bytes,
\* both give the original bytes and the original rows, cols and element_size.
C5_SingleFragment ==
    /\ (pc \in {"m_encoded", "m_decoded", "m_received"} /\ SingleFragment)
         => /\ mtx.ret > 0
            /\ mtx.frame_count = 1
            /\ Len(mtx.lens) = 1
            /\ mtx.ret = 2 + mtx.lens[1]
    /\ (pc = "m_decoded" /\ SingleFragment)
         => /\ mrx.ret = Len(Image)
            /\ mrx.matrix = Image
            /\ mrx.rows = mat.rows /\ mrx.cols = mat.cols
            /\ mrx.element_size = mat.element_size
    /\ (pc = "m_received" /\ SingleFragment)
         => /\ rx.end = "return"
            /\ rx.ret = InfoOffset + MetadataBytes + Len(Image)
            /\ SubSeq(rx.out, InfoOffset + MetadataBytes + 1, rx.ret) = Image
            /\ rx.out[InfoOffset + 5] * 256 + rx.out[InfoOffset + 6] = mat.rows
            /\ rx.out[InfoOffset + 7] * 256 + rx.out[InfoOffset + 8] = mat.cols
            /\ rx.out[InfoOffset + 11] = mat.element_size

C5_Witness ==
    /\ pc = "m_received"
    /\ mat.rows = 10 /\ mat.cols = 20 /\ mat.element_size = 1
    /\ mtx.frame_count = 1
    /\ rx.ret = InfoOffset + MetadataBytes + 200

\* C6: a call never writes a caller buffer past the length the caller
\* allocated; when the output does not fit, the call returns -3 instead.
C6_BoundsChecked ==
    /\ (pc = "encoded" /\ tx.end = "return")
         => (tx.touched <= Len(tx.out) \/ tx.ret = AX25_ERROR_BUFFER_OVERFLOW)
    /\ (pc = "encoded") => tx.end = "return"
    /\ (pc = "received" /\ rx.end = "return")
         => (rx.received <= Len(rx.out) \/ rx.ret = AX25_ERROR_BUFFER_OVERFLOW)

\* C7: for a payload of 238, 239 or 240 bytes, either ax25_encode returns a
\* negative code, or encode and recv round-trip exactly; the unstuffed frame
\* is never written past the 256 bytes of interm_buffer.
C7_NearLimit ==
    /\ (pc = "encoded" /\ Len(payload) \in 238..240)
         => /\ tx.end = "return"
            /\ tx.ret < 0 \/ tx.framelen <= AX25_MAX_FRAME_LEN
    /\ (pc = "received" /\ flip = -1 /\ Len(payload) \in 238..240)
         => /\ rx.end = "return"
            /\ rx.ret = 16 + Len(payload)
            /\ SubSeq(rx.out, 1, rx.ret) = Header \o payload

\* the frame ax25_encode builds for the payload, and its stuffed bitstream
Frame ==
    ax25_create_frame(payload, ftype,
        ax25_create_addr_field(GRD_CALLSIGN, GRD_SSID, SAT_CALLSIGN, SAT_SSID),
        AX25_CTRL_UI, AX25_MIN_CTRL_LEN).out

Stuffed == ax25_bit_stuffing(Frame, Len(Frame))

\* bits[i+1 .. i+8], C index i, is the flag pattern
IsFlagWindow(bits, i) ==
    \A j \in 1..8 : bits[i + j] = AX25_SYNC_FLAG_MAP_BIN[j]

\* bits[i+1 .. i+6] are six 1 bits
SixOnes(bits, i) ==
    \A j \in 1..6 : bits[i + j] = 1

\* C8: in the stream ax25_bit_stuffing produces, the bits between the leading
\* and the trailing flag hold no run of more than five 1 bits, and the flag
\* pattern occurs at the leading and at the trailing flag only.
C8_NoFlagInBody ==
    (pc = "encoded" /\ Len(Frame) > 0)
        => LET s == Stuffed
               n == s.out_len
           IN  /\ s.status = AX25_ENC_OK
               /\ n = Len(s.out)
               /\ \A i \in 8..(n - 14) : ~SixOnes(s.out, i)
               /\ \A i \in 0..(n - 8) : IsFlagWindow(s.out, i) <=> i \in {0, n - 8}

C8_Witness ==
    /\ pc = "encoded"
    /\ payload = << 126, 126, 126, 126 >>
    /\ tx.end = "return" /\ tx.ret > 0
    /\ Stuffed.out_len > 16 + 8 * (Len(Frame) - 2)

\* Number of zero bits stuffing inserts into the body bits lo..hi of a frame,
\* counted from the runs of 1 bits: a summary of a bit range is whether it is
\* all ones, its length, the 1-runs at its two ends, and the zeros owed by the
\* runs closed by a 0 bit inside it (a closed run of L ones owes L div 5).
RECURSIVE RunSummary(_, _, _)
RunSummary(frame, lo, hi) ==
    IF lo = hi
    THEN LET b == BitOf(frame[(lo \div 8) + 2], lo % 8)
         IN  [ones |-> b = 1, len |-> 1, pre |-> b, suf |-> b, owed |-> 0]
    ELSE LET mid == (lo + hi) \div 2
             a == RunSummary(frame, lo, mid)
             b == RunSummary(frame, mid + 1, hi)
         IN  [ones |-> a.ones /\ b.ones,
              len |-> a.len + b.len,
              pre |-> IF a.ones THEN a.len + b.pre ELSE a.pre,
              suf |-> IF b.ones THEN b.len + a.suf ELSE b.suf,
              owed |-> a.owed + b.owed
                       + (IF a.ones \/ b.ones THEN 0 ELSE (a.suf + b.pre) \div 5)]

\* a run that ends the body is followed by no bit: it owes (L - 1) div 5
StuffedZeroBits(frame) ==
    LET r == RunSummary(frame, 0, 8 * (Len(frame) - 2) - 1)
        open(L) == IF L = 0 THEN 0 ELSE (L - 1) \div 5
    IN  IF r.ones THEN open(r.len)
        ELSE (r.pre \div 5) + r.owed + open(r.suf)

\* C9: the returned byte count is ceil((16 + 8*frame_bytes + stuffed zero
\* bits) / 8) with frame_bytes = 18 + |p|; the first byte is 0x7E; bit i of the
\* stuffed stream is bit 7 - (i mod 8) of out[i / 8]; the padding bits of the
\* last byte are zero.
C9_WireLength ==
    (pc = "encoded" /\ tx.end = "return" /\ Len(payload) <= AX25_MAX_INFO_LEN
       /\ ftype = AX25_UI_FRAME /\ CallFits)
        => LET frame_bytes == 14 + 1 + 1 + Len(payload) + 2
               n == 16 + 8 * frame_bytes + StuffedZeroBits(Frame)
               s == Stuffed
           IN  /\ tx.ret = (n + 7) \div 8
               /\ tx.out[1] = AX25_FLAG
               /\ n = s.out_len
               /\ \A i \in 0..(n - 1) :
                     (tx.out[(i \div 8) + 1] \div (2 ^ (7 - (i % 8)))) % 2 = s.out[i + 1]
               /\ tx.out[tx.ret] % (2 ^ ((8 - (n % 8)) % 8)) = 0

\* C10: for a payload of 0..240 bytes ax25_encode touches no byte of the
\* caller's buffer at an index >= 2*frame_bytes + 32, frame_bytes = 18 + |p|.
C10_OutputBound ==
    (pc = "encoded" /\ Len(payload) <= AX25_MAX_INFO_LEN)
        => /\ tx.touched <= 2 * (18 + Len(payload)) + 32
           /\ \A c \in (tx.touched + 1)..Len(tx.out) :
                 tx.out[c] = CallerBuffer(Len(tx.out), tx.fill)[c]

C10_Witness ==
    /\ pc = "encoded"
    /\ payload = Fill(255, 223)
    /\ tx.end = "return" /\ ~tx.ub
    /\ tx.touched = tx.ret + 1
    /\ tx.touched > Len(payload) + 18 + 2

\* C11: ax25_encode with a frame type other than UI returns -2 and leaves
\* every byte of the output buffer as it was, whatever the payload.
C11_TypeRejected ==
    (pc = "encoded" /\ ftype # AX25_UI_FRAME)
        => /\ tx.end = "return"
           /\ tx.ret = AX25_ERROR_INVALID_PARAM
           /\ tx.touched = 0
           /\ tx.out = CallerBuffer(Len(tx.out), tx.fill)

\* C12: ax25_encode with the UI type and a payload of more than 240 bytes
\* returns -2 and hands back no wire frame.
C12_LengthRejected ==
    (pc = "encoded" /\ ftype = AX25_UI_FRAME /\ Len(payload) > AX25_MAX_INFO_LEN)
        => /\ tx.end = "return"
           /\ tx.ret = AX25_ERROR_INVALID_PARAM
           /\ tx.touched = 0

\* the bits ax25_recv was handed, one per element, first bit of the wire first
WireBits == ExpandBits(rx_in, Len(rx_in))

\* bit indices at which the flag pattern 0,1,1,1,1,1,1,0 starts
FlagPositions(bits) == { i \in 0..(Len(bits) - 8) : IsFlagWindow(bits, i) }

Least(S) == CHOOSE i \in S : \A j \in S : i <= j

\* the flags among S that follow the first one without overlapping it
LaterFlags(S) == { j \in S : j >= Least(S) + 8 }

\* a 0 that follows five 1 bits is a stuffed bit and is not part of a byte
StuffedZeros(content) ==
    Cardinality({ i \in 6..Len(content) :
                    content[i] = 0 /\ \A k \in 1..5 : content[i - k] = 1 })

ReconstructedBytes(content) == (Len(content) - StuffedZeros(content)) \div 8

\* content is the bits between the opening flag and the flag after it
NoFrameInContent(content) ==
    \/ ReconstructedBytes(content) < AX25_MIN_ADDR_LEN
    \/ \E i \in 0..(Len(content) - 6) : SixOnes(content, i)

\* flags is the set of flag positions of bits
NoFrameBetween(bits, flags) ==
    \/ flags = {}
    \/ flags # {} /\ LaterFlags(flags) = {}
    \/ flags # {} /\ LaterFlags(flags) # {}
         /\ NoFrameInContent(SubSeq(bits, Least(flags) + 9, Least(LaterFlags(flags))))

\* the four kinds of input that hold no frame: no flag, no second flag, fewer
\* than 14 bytes between the flags, six 1 bits in a row between the flags
NoFrameIn(bits) == NoFrameBetween(bits, FlagPositions(bits))

\* C13: ax25_recv returns a negative code, never a length, when the input
\* holds no flag pattern, no second flag after the first, fewer than 14
\* reconstructed bytes between the two flags, or six consecutive 1 bits in the
\* content after the opening flag.
C13_NoFrameRejected ==
    (pc = "received" /\ NoFrameIn(WireBits)) => (rx.end = "return" /\ rx.ret < 0)

\* C14: a call that returns a negative code has left the caller's buffers as
\* they were: ax25_recv has written no byte of out, and ax25_decode_matrix has
\* written no byte of matrix and has not set rows, cols or element_size.
C14_NoPartialWrite ==
    /\ (pc = "received" /\ rx.end = "return" /\ rx.ret < 0)
         => /\ rx.received = 0
            /\ rx.out = CallerBuffer(Len(rx.out), rx.fill)
    /\ (pc = "m_decoded" /\ mrx.ret < 0)
         => /\ mrx.matrix = << >>
            /\ mrx.rows = 0 /\ mrx.cols = 0 /\ mrx.element_size = 0

\* byte k (1..6) of a callsign field: the callsign byte shifted left by one
\* within the byte, or the shifted space
ShiftedCallsignByte(cs, k) == IF k <= Len(cs) THEN (2 * cs[k]) % 256 ELSE 64

\* C15: for SSIDs in 0..15 ax25_create_addr_field returns 14 and writes 14
\* bytes: six shifted destination callsign bytes padded with 0x40, the
\* destination SSID byte ((ssid & 0x0F) << 1) | 0x60, the source callsign
\* encoded the same way from the source argument, and the source SSID byte
\* with bit 0 set as well.
C15_AddrField ==
    (pc = "called" /\ call.fn = "addr" /\ call.args[2] <= 15 /\ call.args[4] <= 15)
        => /\ call.end = "return"
           /\ call.ret = 14
           /\ Len(call.out) = 14
           /\ \A k \in 1..6 : call.out[k] = ShiftedCallsignByte(call.args[1], k)
           /\ call.out[7] = 2 * (call.args[2] % 16) + 96
           /\ \A k \in 1..6 : call.out[7 + k] = ShiftedCallsignByte(call.args[3], k)
           /\ call.out[14] = 2 * (call.args[4] % 16) + 96 + 1

C15_Witness ==
    /\ pc = "called" /\ call.fn = "addr" /\ call.end = "return"
    /\ call.args = << << 68, 69, 83, 84 >>, 5, << 83, 82, 67 >>, 3 >>
    /\ call.out = << 136, 138, 166, 168, 64, 64, 106, 166, 164, 134, 64, 64, 64, 103 >>

\* C16: ax25_create_addr_field with a destination or source SSID above 15
\* fails with an error instead of returning an address field.
C16_SsidRejected ==
    (pc = "called" /\ call.fn = "addr" /\ (call.args[2] > 15 \/ call.args[4] > 15))
        => /\ call.end = "return"
           /\ call.ret # AX25_MIN_ADDR_LEN
           /\ call.out = << >>

\* the reflected CRC-16-CCITT computed bit by bit: polynomial 0x8408, initial
\* value 0xFFFF, final XOR 0xFFFF
RECURSIVE CrcBits(_, _)
CrcBits(crc, k) ==
    IF k = 0 THEN crc
    ELSE CrcBits(IF crc % 2 = 1 THEN Xor(crc \div 2, 33800) ELSE crc \div 2, k - 1)

RECURSIVE CrcRange(_, _, _, _)
CrcRange(buffer, lo, hi, crc) ==
    IF lo > hi \/ crc \notin 0..65535 THEN crc
    ELSE IF lo = hi THEN CrcBits(Xor(crc, buffer[lo]), 8)
    ELSE LET mid == (lo + hi) \div 2
         IN  CrcRange(buffer, mid + 1, hi, CrcRange(buffer, lo, mid, crc))

Crc16Reflected(buffer) == Xor(CrcRange(buffer, 1, Len(buffer), 65535), 65535)

\* the layout of a frame of n bytes built from info, type, addr, ctrl, ctrl_len
FrameLaidOut(out, n, info, type, addr, ctrl, ctrl_len, pid_len, fcs) ==
    /\ Len(out) = n
    /\ out[1] = 126
    /\ \A k \in 1..Len(addr) : out[1 + k] = addr[k]
    /\ out[2 + Len(addr)] = ctrl % 256
    /\ ctrl_len = 2 => out[3 + Len(addr)] = (ctrl \div 256) % 256
    /\ pid_len = 1 => out[2 + Len(addr) + ctrl_len] = 240
    /\ \A k \in 1..Len(info) : out[1 + Len(addr) + ctrl_len + pid_len + k] = info[k]
    /\ out[n - 2] = fcs \div 256
    /\ out[n - 1] = fcs % 256
    /\ out[n] = 126
    /\ (type = AX25_UI_FRAME /\ Len(addr) = 14 /\ ctrl_len = 1)
         => (out[17] = 240 /\ n = 20 + Len(info))

\* the length the frame of these arguments has
FrameLength(info, type, addr, ctrl_len) ==
    1 + Len(addr) + ctrl_len
      + (IF type \in {AX25_I_FRAME, AX25_UI_FRAME} THEN 1 ELSE 0) + Len(info) + 3

\* C17: for valid arguments ax25_create_frame writes 0x7E, the address, the
\* control field low byte first, the PID 0xF0 for I and UI frames only, the
\* info bytes, the FCS of the bytes after the leading flag with its high byte
\* first, and 0x7E, and returns 1 + addr_len + ctrl_len + PID + info_len + 3.
C17_FrameLayout ==
    (pc = "called" /\ call.fn = "frame"
       /\ Len(call.args[1]) <= 240 /\ Len(call.args[3]) \in {14, 28}
       /\ call.args[5] \in {1, 2})
        => /\ call.end = "return"
           /\ call.ret = FrameLength(call.args[1], call.args[2], call.args[3], call.args[5])
           /\ FrameLaidOut(call.out, call.ret, call.args[1], call.args[2], call.args[3],
                           call.args[4], call.args[5],
                           IF call.args[2] \in {AX25_I_FRAME, AX25_UI_FRAME} THEN 1 ELSE 0,
                           Crc16Reflected(SubSeq(call.out, 2, call.ret - 3)))

C17_Witness ==
    /\ pc = "called" /\ call.fn = "frame" /\ call.end = "return"
    /\ call.args[1] = << 65 >> /\ call.args[2] = AX25_UI_FRAME
    /\ Len(call.args[3]) = 14 /\ call.args[5] = 1
    /\ call.ret = 21 /\ call.out[17] = 240 /\ call.out[18] = 65

\* C18: ax25_create_frame returns the error value and no frame when info_len
\* exceeds 240, the address length is not 14, or the control length is
\* neither 1 nor 2.
C18_FrameRejected ==
    (pc = "called" /\ call.fn = "frame"
       /\ (Len(call.args[1]) > 240 \/ Len(call.args[3]) # 14 \/ call.args[5] \notin {1, 2}))
        => /\ call.end = "return"
           /\ call.ret = 0
           /\ call.out = << >>

\* C19: for every buffer of at least one byte ax25_fcs returns the reflected
\* CRC-16-CCITT (polynomial 0x8408, initial value 0xFFFF, final XOR 0xFFFF)
\* as the bit-by-bit computation gives it, a value of 16 bits.
C19_ReflectedCrc ==
    (pc = "called" /\ call.fn = "fcs" /\ Len(call.args[1]) >= 1)
        => /\ call.end = "return"
           /\ call.ret = Crc16Reflected(call.args[1])
           /\ call.ret \in 0..65535

C19_Witness ==
    /\ pc = "called" /\ call.fn = "fcs"
    /\ call.args[1] = << 49, 50, 51, 52, 53, 54, 55, 56, 57 >>
    /\ call.ret = 36974

\* what fragment i (from 0) of a matrix of total bytes has to carry
FragmentCount(total) == (total + 199) \div 200

FragmentDataLen(total, i) == IF total - 200 * i < 200 THEN total - 200 * i ELSE 200

\* r is what ax25_recv gives for fragment i of the stream: header, then the
\* 11 metadata bytes, then data_len bytes of the image from offset 200*i
FragmentCarries(r, i, m, image) ==
    LET total == m.rows * m.cols * m.element_size
        meta == decode_matrix_metadata(SubSeq(r.out, InfoOffset + 1, InfoOffset + MetadataBytes))
    IN  /\ r.ret = InfoOffset + MetadataBytes + FragmentDataLen(total, i)
        /\ meta.chunk_index = i
        /\ meta.total_chunks = FragmentCount(total)
        /\ meta.rows = m.rows /\ meta.cols = m.cols
        /\ meta.element_size = m.element_size
        /\ meta.data_len = FragmentDataLen(total, i)
        /\ SubSeq(r.out, InfoOffset + MetadataBytes + 1, InfoOffset + MetadataBytes + meta.data_len)
             = SubSeq(image, 200 * i + 1, 200 * i + meta.data_len)

\* fragment i read from the stream at acc.offset: its 2-byte length prefix is
\* the length of the frame that follows, and the frame carries what it has to
ScanFragment(acc, frames, lens, i, m, image) ==
    LET len == lens[i + 1]
        in == SubSeq(frames, acc.offset + 3, acc.offset + 2 + len)
    IN  [offset |-> acc.offset + 2 + len,
         sum |-> acc.sum + FragmentDataLen(m.rows * m.cols * m.element_size, i),
         ok |-> /\ acc.ok
                /\ acc.offset + 2 + len <= Len(frames)
                /\ frames[acc.offset + 1] * 256 + frames[acc.offset + 2] = len
                /\ FragmentCarries(ax25_recv([c \in 1..AX25_MAX_FRAME_LEN |-> 0], in, len),
                                   i, m, image)]

RECURSIVE ScanFragments(_, _, _, _, _, _, _)
ScanFragments(acc, frames, lens, lo, hi, m, image) ==
    IF lo > hi \/ ~acc.ok THEN acc
    ELSE IF lo = hi THEN ScanFragment(acc, frames, lens, lo, m, image)
    ELSE ScanFragments(ScanFragments(acc, frames, lens, lo, (lo + hi) \div 2, m, image),
                       frames, lens, (lo + hi) \div 2 + 1, hi, m, image)

\* the scan of the whole stream ended at the end of the stream, every
\* fragment carried its part, and the data lengths add up to total
FragmentsScanned(acc, frames, total) ==
    acc.ok /\ acc.offset = Len(frames) /\ acc.sum = total

\* C20: for every accepted matrix with total = rows*cols*element_size,
\* ax25_encode_matrix emits exactly ceil(total / 200) fragments and reports
\* that number in frame_count; fragment i carries data_len =
\* min(total - 200*i, 200) bytes, the image bytes from offset 200*i on, so the
\* data_len values sum to total.
C20_Fragments ==
    (pc = "m_encoded")
      => /\ mtx.ret > 0
         /\ mtx.ret = Len(mtx.frames)
         /\ mtx.frame_count = FragmentCount(mat.rows * mat.cols * mat.element_size)
         /\ Len(mtx.lens) = mtx.frame_count
         /\ FragmentsScanned(
               ScanFragments([offset |-> 0, sum |-> 0, ok |-> TRUE], mtx.frames, mtx.lens,
                             0, Len(mtx.lens) - 1, mat, Image),
               mtx.frames, mat.rows * mat.cols * mat.element_size)

C20_Witness ==
    /\ pc = "m_encoded"
    /\ mat.rows = 3 /\ mat.cols = 67 /\ mat.element_size = 1
    /\ mtx.frame_count = 2
    /\ mtx.lens[2] > InfoOffset + MetadataBytes + 1

\* r is what ax25_recv gives for fragment i of a matrix m encoded as count
\* fragments: the metadata record holds i, count and the dimensions of m
FragmentMeta(r, i, m, count) ==
    LET meta == decode_matrix_metadata(SubSeq(r.out, InfoOffset + 1, InfoOffset + MetadataBytes))
    IN  /\ r.ret >= InfoOffset + MetadataBytes
        /\ meta.chunk_index = i
        /\ meta.total_chunks = count
        /\ meta.rows = m.rows /\ meta.cols = m.cols
        /\ meta.element_size = m.element_size

\* C21: for every accepted matrix (rows, cols up to 1000, element_size up to
\* 255) the metadata record of the i-th emitted fragment holds chunk_index = i
\* and total_chunks = the number of fragments emitted, with rows, cols and
\* element_size those of the matrix; no field is truncated by its width.
C21_Metadata ==
    (pc = "m_chunk")
      => /\ call.ret > 0
         /\ Len(call.out) = 2 + call.ret
         /\ FragmentMeta(ax25_recv([c \in 1..AX25_MAX_FRAME_LEN |-> 0],
                                   SubSeq(call.out, 3, 2 + call.ret), call.ret),
                         call.args[4], mat,
                         FragmentCount(mat.rows * mat.cols * mat.element_size))

\* the 2-byte big-endian length prefix at offset of a stream (read inside
\* the stream wherever it is used)
PrefixAt(frames, offset) ==
    ByteAt(frames, offset) * 256 + ByteAt(frames, offset + 1)

\* One step of the walk by length prefixes: the unit at w.offset is a 2-byte
\* big-endian len followed by len bytes that begin with the opening flag;
\* returned is the length ax25_encode returned for this fragment.
WalkUnit(w, frames, returned) ==
    LET len == PrefixAt(frames, w.offset)
    IN  [offset |-> w.offset + 2 + len,
         units |-> w.units + 1,
         sum |-> w.sum + 2 + returned,
         ok |-> /\ w.ok
                /\ w.offset + 2 <= Len(frames)
                /\ len = returned
                /\ w.offset + 2 + len <= Len(frames)
                /\ ByteAt(frames, w.offset + 2) = AX25_FLAG]

RECURSIVE WalkUnits(_, _, _, _, _)
WalkUnits(w, frames, lens, lo, hi) ==
    IF lo > hi \/ ~w.ok THEN w
    ELSE IF lo = hi THEN WalkUnit(w, frames, lens[lo])
    ELSE WalkUnits(WalkUnits(w, frames, lens, lo, (lo + hi) \div 2),
                   frames, lens, (lo + hi) \div 2 + 1, hi)

\* the walk visited count units and ended at total, the sum of 2 + len
Walked(w, count, total) ==
    w.ok /\ w.units = count /\ w.offset = total /\ w.sum = total

\* C22: the buffer written by a successful ax25_encode_matrix is a
\* concatenation of frame_count units [len_hi][len_lo][len wire bytes] where
\* len is the byte count ax25_encode returned for that fragment; walking the
\* stream by the length prefixes visits frame_count units and ends exactly at
\* the returned total byte count, the sum of (2 + len) over the fragments.
C22_StreamLayout ==
    /\ (pc = "m_encoded" /\ mtx.ret > 0)
         => /\ Len(mtx.lens) = mtx.frame_count
            /\ Len(mtx.frames) = mtx.ret
            /\ Walked(WalkUnits([offset |-> 0, units |-> 0, sum |-> 0, ok |-> TRUE],
                                mtx.frames, mtx.lens, 1, Len(mtx.lens)),
                      mtx.frame_count, mtx.ret)
    /\ (pc = "m_chunk" /\ call.ret > 0)
         => Walked(WalkUnit([offset |-> 0, units |-> 0, sum |-> 0, ok |-> TRUE],
                            call.out, call.ret),
                   1, Len(call.out))

C22_Witness ==
    /\ pc = "m_encoded"
    /\ mat.rows = 10 /\ mat.cols = 100 /\ mat.kind = "ones"
    /\ mtx.frame_count = 5
    /\ mtx.ret > 5 * (2 + InfoOffset + MetadataBytes + 200)
    /\ mtx.lens[5] > 240


RecvUnit(frames, offset) ==
    ax25_recv([c \in 1..AX25_MAX_FRAME_LEN |-> 0],
              [c \in 1..PrefixAt(frames, offset) |-> ByteAt(frames, offset + 2 + c - 1)],
              PrefixAt(frames, offset))

MetaOf(r) == decode_matrix_metadata(SubSeq(r.out, InfoOffset + 1, InfoOffset + MetadataBytes))

\* both frames decode to a whole metadata record and the records differ in
\* rows, cols or element_size
DimsDiffer(r1, r2) ==
    /\ r1.ret >= InfoOffset + MetadataBytes
    /\ r2.ret >= InfoOffset + MetadataBytes
    /\ << MetaOf(r1).rows, MetaOf(r1).cols, MetaOf(r1).element_size >>
         # << MetaOf(r2).rows, MetaOf(r2).cols, MetaOf(r2).element_size >>

\* C23: ax25_decode_matrix validates dimensions across chunks: if a fragment
\* after the first carries rows, cols or element_size different from those of
\* the first fragment, the call does not return success.
C23_DimsValidated ==
    (/\ pc = "m_stream"
     /\ call.args[2] = 2
     /\ PrefixAt(call.args[1], 0) \in 1..FrameLenLimit
     /\ PrefixAt(call.args[1], 2 + PrefixAt(call.args[1], 0)) \in 1..FrameLenLimit
     /\ DimsDiffer(RecvUnit(call.args[1], 0),
                   RecvUnit(call.args[1], 2 + PrefixAt(call.args[1], 0))))
      => mrx.ret < 0

\* bits[i+1 .. i+5] are five 1 bits
FiveOnes(bits, i) ==
    \A j \in 1..5 : bits[i + j] = 1

\* the zero bits the HDLC rule inserts into the body of a frame: one after
\* every fifth 1 bit of a run, whatever follows, the end of the body included
HdlcZeroBits(frame) ==
    LET r == RunSummary(frame, 0, 8 * (Len(frame) - 2) - 1)
    IN  IF r.ones THEN r.len \div 5
        ELSE (r.pre \div 5) + r.owed + (r.suf \div 5)

\* s is the stream ax25_bit_stuffing made of frame: between the flags it
\* holds the body bits and the zero bits of the HDLC rule, and five 1 bits
\* of it are followed by a 0 bit that lies before the trailing flag
StuffedByRule(s, frame) ==
    /\ s.status = AX25_ENC_OK
    /\ s.out_len = 16 + 8 * (Len(frame) - 2) + HdlcZeroBits(frame)
    /\ \A i \in 8..(s.out_len - 13) :
          FiveOnes(s.out, i) => (i + 5 < s.out_len - 8 /\ s.out[i + 6] = 0)

\* C24: ax25_bit_stuffing inserts a 0 bit after every run of exactly five
\* consecutive 1 bits of the frame body regardless of what follows, including
\* when the run is the last five bits of the body (the end of the FCS): the
\* bit after five consecutive body 1 bits is a stuffed 0, never the first bit
\* of the trailing flag.
C24_StuffAfterFive ==
    (pc = "encoded" /\ ftype = AX25_UI_FRAME /\ Len(payload) <= AX25_MAX_INFO_LEN)
        => StuffedByRule(Stuffed, Frame)

\* C25: for every payload of length 0..240 and any byte values (payloads of
\* all 0xFF in particular) the number of bits ax25_bit_stuffing writes never
\* exceeds the capacity of tmp_send_buf in ax25_encode, 2304 entries.
C25_StuffedFits ==
    (pc = "encoded" /\ ftype = AX25_UI_FRAME /\ Len(payload) <= AX25_MAX_INFO_LEN)
        => /\ tx.ret_len <= AX25_MAX_FRAME_LEN * 8 + AX25_MAX_FRAME_LEN
           /\ Stuffed.out_len <= AX25_MAX_FRAME_LEN * 8 + AX25_MAX_FRAME_LEN

\* r is what ax25_recv gives for a fragment inside ax25_decode_matrix: the
\* bits it expanded fit tmp_recv_buf and the bytes ax25_decode stored fit
\* decode_buffer
RecvFits(r) ==
    /\ r.expanded <= AX25_MAX_FRAME_LEN * 8 + AX25_MAX_FRAME_LEN
    /\ r.received <= AX25_MAX_FRAME_LEN

\* C26: for every input length that ax25_decode_matrix accepts for a fragment
\* (1 <= L <= 500 bytes) the bit expansion done by ax25_recv (8*L entries)
\* stays within tmp_recv_buf, 2304 entries, and the bytes ax25_decode
\* reconstructs stay within the 256-byte decode_buffer.
C26_FragmentFits ==
    (/\ pc = "m_stream"
     /\ PrefixAt(call.args[1], 0) \in 1..FrameLenLimit
     /\ Len(call.args[1]) >= 2 + PrefixAt(call.args[1], 0))
      => RecvFits(RecvUnit(call.args[1], 0))

\* r is what ax25_recv gives for the only fragment of a stream and m what
\* ax25_decode_matrix returned for the stream: without a whole metadata
\* record in the frame nothing is parsed or copied, and what is copied is
\* no more than the frame holds after header and metadata
CopiedFromFrame(r, m) ==
    /\ r.ret < InfoOffset + MetadataBytes
         => (m.ret < 0 /\ m.matrix = << >> /\ m.rows = 0 /\ m.cols = 0 /\ m.element_size = 0)
    /\ r.ret >= InfoOffset + MetadataBytes
         => Len(m.matrix) <= r.ret - (InfoOffset + MetadataBytes)

\* C27: for every fragment stream whose frames pass the flag and FCS checks,
\* ax25_decode_matrix copies from each decoded frame only bytes that the
\* frame holds: it parses the 11-byte metadata only when the decoded length
\* is at least 27, and the data_len it copies never exceeds decoded_len - 27.
C27_CopyWithinFrame ==
    (/\ pc = "m_stream"
     /\ call.args[2] = 1
     /\ PrefixAt(call.args[1], 0) \in 1..FrameLenLimit
     /\ RecvUnit(call.args[1], 0).ret >= 0
     /\ RecvFits(RecvUnit(call.args[1], 0)))
      => CopiedFromFrame(RecvUnit(call.args[1], 0), mrx)

\* C28: a successful ax25_encode that returns n modifies only out[0..n-1]:
\* out[n] and every later byte of the caller's buffer keep the value they
\* had before the call.
C28_OnlyReturnedBytes ==
    (pc = "encoded" /\ tx.end = "return" /\ tx.ret > 0)
        => \A c \in (tx.ret + 1)..Len(tx.out) :
              tx.out[c] = CallerBuffer(Len(tx.out), tx.fill)[c]

\* the body loop of ax25_bit_stuffing followed iteration by iteration: t.st is
\* the loop state, t.max the largest value cont_1 had at the end of an
\* iteration so far
TraceBit(t, bit) ==
    [st |-> StuffBit(t.st, bit),
     max |-> IF StuffBit(t.st, bit).cont_1 > t.max THEN StuffBit(t.st, bit).cont_1 ELSE t.max]

RECURSIVE TraceBody(_, _, _, _)
TraceBody(t, buffer, lo, hi) ==
    IF lo > hi \/ t.st.status = AX25_ENC_FAIL THEN t
    ELSE IF lo = hi THEN TraceBit(t, BitOf(buffer[(lo \div 8) + 2], lo % 8))
    ELSE TraceBody(TraceBody(t, buffer, lo, (lo + hi) \div 2),
                   buffer, (lo + hi) \div 2 + 1, hi)

StuffTrace(frame) ==
    TraceBody([st |-> [out |-> AX25_SYNC_FLAG_MAP_BIN, cont_1 |-> 0, status |-> AX25_ENC_OK],
               max |-> 0],
              frame, 0, 8 * (Len(frame) - 2) - 1)

\* the counter stayed within 5 and the loop ended without the abort return
CounterBounded(t, s) ==
    /\ t.max <= AX25_MAX_CONSECUTIVE_ONES
    /\ t.st.status = AX25_ENC_OK
    /\ s.status = AX25_ENC_OK
    /\ s.out = t.st.out \o AX25_SYNC_FLAG_MAP_BIN

\* C29: in ax25_bit_stuffing the consecutive-ones counter never exceeds 5, so
\* the abort branch (counter > AX25_MAX_STUFFED_BITS = 14) is never taken and
\* the function returns AX25_ENC_OK for every frame of length > 2; ax25_encode
\* never fails because of the payload's bit pattern.
C29_CounterBounded ==
    (pc = "encoded" /\ ftype = AX25_UI_FRAME /\ Len(payload) <= AX25_MAX_INFO_LEN
       /\ CallFits)
        => /\ Len(Frame) > 2
           /\ CounterBounded(StuffTrace(Frame), Stuffed)
           /\ tx.end = "return"
           /\ tx.ret > 0

\* C30: for every pair of callsigns (any byte values, any length) and every
\* SSID value, the address field written by ax25_create_addr_field has bit 0
\* clear in bytes 0..12 and bit 0 set in byte 13: exactly the last byte is
\* marked as the end of the address list.
C30_LastAddressBit ==
    (pc = "called" /\ call.fn = "addr" /\ call.end = "return")
        => /\ Len(call.out) = AX25_MIN_ADDR_LEN
           /\ \A k \in 1..13 : call.out[k] % 2 = 0
           /\ call.out[14] % 2 = 1

C30_Witness ==
    /\ pc = "called" /\ call.fn = "addr" /\ call.end = "return"
    /\ call.args = << << 200, 255 >>, 15, << 65, 66, 67, 68, 69, 70, 71, 72 >>, 15 >>
    /\ call.out[2] = 254 /\ call.out[7] = 126 /\ call.out[14] = 127

====
